---- MODULE Spec2Model ----
(***************************************************************************)
(* A model of scripts/import_gemini_research.py: the research-document      *)
(* extraction engine (parse_guest_table, parse_guest_details,              *)
(* parse_structured_section, build_guest_profiles,                         *)
(* extract_name_descriptor_pairs, parse_episode_specs, load_research) and  *)
(* the import driver main.                                                 *)
(*                                                                         *)
(* Text is modelled as a sequence of atoms.  An atom is a TLA+ string that *)
(* stands for a run of characters the code never looks inside: a word      *)
(* ("Jane"), one punctuation character ("|", ":", "(", "+"), one white     *)
(* space character (" ", "\n"), one digit, or one of the literal words the *)
(* code searches for ("Thematic Pairing", "Detailed Guest Profiles").      *)
(* Every Python string operation is translated to the same operation on    *)
(* atom sequences (find, split, strip, startswith, regular expressions).   *)
(* A Python dict is an insertion-ordered sequence of [k, v] records with   *)
(* distinct keys; Optional[x] is <<>> (None) or <<x>>.                     *)
(***************************************************************************)
EXTENDS Integers, Sequences, FiniteSets, TLC

VARIABLES pc, text, table, details, profiles, by_name, episodes, error,
          rc, api_log, args, dev, research_exists, existing_by_name,
          guest_ids, created_episodes, episode, spec_idx, name_idx,
          name_pairs, raw_lines, scan,
          json_file, dry_run, counts, episode_idx, calls

vars == <<pc, text, table, details, profiles, by_name, episodes, error,
          rc, api_log, args, dev, research_exists, existing_by_name,
          guest_ids, created_episodes, episode, spec_idx, name_idx,
          name_pairs, raw_lines, scan,
          json_file, dry_run, counts, episode_idx, calls>>

----------------------------------------------------------------------------
(* Python values *)

None == <<>>

Some(x) == <<x>>

\* truthiness of an Optional[str]: not None and not the empty string
Truthy(opt) == opt # None /\ opt[1] # <<>>

\* `opt or other` on Optional[str] values
OrElse(opt, other) == IF Truthy(opt) THEN opt ELSE other

Min(S) == CHOOSE x \in S : \A y \in S : x <= y

Max(S) == CHOOSE x \in S : \A y \in S : x >= y

----------------------------------------------------------------------------
(* str primitives on atom sequences *)

\* the characters Python's str.strip() and the regex class \s remove
WS == {" ", "\n", "\t"}

Digit == {"0", "1", "2", "3", "4", "5", "6", "7", "8", "9"}

Digits == <<"0", "1", "2", "3", "4", "5", "6", "7", "8", "9">>

\* s[i:] with 1-based i
From(s, i) == SubSeq(s, i, Len(s))

\* first index j >= i with j past the end or s[j] \notin S (end of a run of S)
RunEnd(s, i, S) ==
    Min({j \in i..(Len(s) + 1) : j = Len(s) + 1 \/ s[j] \notin S})

\* last index j <= i with j = 0 or s[j] \notin S (scanning backwards)
RunStart(s, i, S) ==
    Max({j \in 0..i : j = 0 \/ s[j] \notin S})

\* strip of a character set at both ends: lead at the front, trail at the back
StripSets(s, lead, trail) ==
    LET a == RunEnd(s, 1, lead)
        b == RunStart(s, Len(s), trail)
    IN  IF a > b THEN <<>> ELSE SubSeq(s, a, b)

Strip(s) == StripSets(s, WS, WS)

RStrip(s) == StripSets(s, {}, WS)

StartsWith(s, p) == Len(s) >= Len(p) /\ SubSeq(s, 1, Len(p)) = p

\* positions where p occurs in s
Occurrences(s, p) ==
    {i \in 1..(Len(s) - Len(p) + 1) : SubSeq(s, i, i + Len(p) - 1) = p}

\* str.find(p, start): first occurrence at index >= start, 0 when there is none
Find(s, p, start) ==
    LET occ == {i \in Occurrences(s, p) : i >= start}
    IN  IF occ = {} THEN 0 ELSE Min(occ)

Contains(s, p) == Occurrences(s, p) # {}

\* number of characters of an atom sequence (len of the Python string)
RECURSIVE CharLen(_)
CharLen(s) == IF s = <<>> THEN 0 ELSE Len(Head(s)) + CharLen(Tail(s))

\* str.splitlines()
RECURSIVE SplitLines(_)
SplitLines(s) ==
    IF s = <<>> THEN <<>>
    ELSE LET i == Find(s, <<"\n">>, 1)
         IN  IF i = 0 THEN <<s>>
             ELSE <<SubSeq(s, 1, i - 1)>> \o SplitLines(From(s, i + 1))

\* sep.join(parts)
RECURSIVE Join(_, _)
Join(parts, sep) ==
    IF parts = <<>> THEN <<>>
    ELSE IF Len(parts) = 1 THEN parts[1]
    ELSE parts[1] \o sep \o Join(Tail(parts), sep)

\* [x for x in seq if x] : the non-empty strings of a list
RECURSIVE NonEmpty(_)
NonEmpty(parts) ==
    IF parts = <<>> THEN <<>>
    ELSE IF Head(parts) = <<>> THEN NonEmpty(Tail(parts))
    ELSE <<Head(parts)>> \o NonEmpty(Tail(parts))

\* str(n) for n >= 0
RECURSIVE Str(_)
Str(n) ==
    IF n < 10 THEN <<Digits[n + 1]>>
    ELSE Str(n \div 10) \o <<Digits[(n % 10) + 1]>>

\* str.lower() of one atom, for the atoms whose case the code inspects
LowerAtom(a) ==
    CASE a = "And" -> "and"
      [] a = "AND" -> "and"
      [] a = "Guest Name" -> "guest name"
      [] a = "Name" -> "name"
      [] a = "NAME" -> "name"
      [] a = "Jane" -> "jane"
      [] a = "JANE" -> "jane"
      [] a = "John" -> "john"
      [] OTHER -> a

Lower(s) == [i \in 1..Len(s) |-> LowerAtom(s[i])]

----------------------------------------------------------------------------
(* dict primitives *)

Keys(d) == {d[i].k : i \in 1..Len(d)}

KeySeq(d) == [i \in 1..Len(d) |-> d[i].k]

IndexOf(d, key) == CHOOSE i \in 1..Len(d) : d[i].k = key

\* d[key] = value : an existing key keeps its position
DictSet(d, key, value) ==
    IF key \in Keys(d)
    THEN [d EXCEPT ![IndexOf(d, key)] = [k |-> key, v |-> value]]
    ELSE Append(d, [k |-> key, v |-> value])

\* d.get(key) as an Optional
DictGet(d, key) == IF key \in Keys(d) THEN Some(d[IndexOf(d, key)].v) ELSE None

\* d.get(key, default)
DictGetOr(d, key, default) ==
    IF key \in Keys(d) THEN d[IndexOf(d, key)].v ELSE default

----------------------------------------------------------------------------
(* parse_structured_section *)

\* one iteration of the loop over lines; st = [fields, current_key]
StructuredLine(st, raw_line) ==
    LET stripped == Strip(raw_line)
    IN  IF stripped = <<>> THEN st
        ELSE IF StartsWith(stripped, <<"*", " ">>)
        THEN LET content == Strip(From(stripped, 3))
             IN  IF Contains(content, <<":", " ">>)
                 THEN LET i     == Find(content, <<":">>, 1)
                          key   == Strip(SubSeq(content, 1, i - 1))
                          value == Strip(From(content, i + 1))
                      IN  [fields      |-> DictSet(st.fields, key, value),
                           current_key |-> Some(key)]
                 ELSE [st EXCEPT !.current_key = None]
        ELSE IF Truthy(st.current_key)
        THEN LET key == st.current_key[1]
                 old == DictGetOr(st.fields, key, <<>>)
             IN  [st EXCEPT !.fields =
                     DictSet(st.fields, key, Strip(old \o <<" ">> \o stripped))]
        ELSE st

RECURSIVE StructuredScan(_, _)
StructuredScan(st, lines) ==
    IF lines = <<>> THEN st
    ELSE StructuredScan(StructuredLine(st, Head(lines)), Tail(lines))

parse_structured_section(lines) ==
    StructuredScan([fields |-> <<>>, current_key |-> None], lines).fields

----------------------------------------------------------------------------
(* extract_name_descriptor_pairs *)

\* the characters the name clean-up removes at either end: [\s+,]
SepChars == WS \cup {"+", ","}

\* re.sub(r'^\s*and\s+', '', s, flags=re.IGNORECASE)
DropLeadingAnd(s) ==
    LET a == RunEnd(s, 1, WS)
    IN  IF a <= Len(s) /\ LowerAtom(s[a]) = "and"
           /\ a + 1 <= Len(s) /\ s[a + 1] \in WS
        THEN From(s, RunEnd(s, a + 1, WS))
        ELSE s

\* the clean-up of a name captured by the primary pattern
CleanName(name) == DropLeadingAnd(StripSets(Strip(name), SepChars, SepChars))

\* the clean-up of a token of the fallback split (also drops trailing '.')
CleanToken(token) ==
    DropLeadingAnd(StripSets(Strip(token), SepChars, SepChars \cup {"."}))

\* positions p > pos of a "(" that the pattern \(([^)]+)\) matches: the
\* first ")" after p exists and leaves at least one character between
OpenParens(raw, pos) ==
    {p \in (pos + 1)..Len(raw) :
        /\ raw[p] = "("
        /\ LET q == Find(raw, <<")">>, p + 1) IN q >= p + 2}

\* re.findall(r"(.+?)\s*\(([^)]+)\)", raw) from position pos on: the match
\* starts at pos, its name ends before the white space that precedes the
\* first matching "(", and the scan resumes after the closing ")"
RECURSIVE FindAllPairs(_, _)
FindAllPairs(raw, pos) ==
    IF OpenParens(raw, pos) = {} THEN <<>>
    ELSE LET p == Min(OpenParens(raw, pos))
             q == Find(raw, <<")">>, p + 1)
             k == Max({pos, RunStart(raw, p - 1, WS)})
         IN  <<[name |-> SubSeq(raw, pos, k),
                descriptor |-> SubSeq(raw, p + 1, q - 1)]>>
             \o FindAllPairs(raw, q + 1)

RECURSIVE PrimaryResults(_)
PrimaryResults(pairs) ==
    IF pairs = <<>> THEN <<>>
    ELSE LET clean_name == CleanName(Head(pairs).name)
         IN  (IF clean_name # <<>>
              THEN <<[name |-> clean_name,
                      descriptor |-> Some(Strip(Head(pairs).descriptor))]>>
              ELSE <<>>)
             \o PrimaryResults(Tail(pairs))

\* the end of the separator \s*\+ | \s*,\s* | \s+and\s+ matching at i, or 0
SeparatorEnd(raw, i) ==
    LET j == RunEnd(raw, i, WS)
    IN  IF j <= Len(raw) /\ raw[j] = "+" THEN j
        ELSE IF j <= Len(raw) /\ raw[j] = "," THEN RunEnd(raw, j + 1, WS) - 1
        ELSE IF j > i /\ j <= Len(raw) /\ raw[j] = "and"
                /\ j + 1 <= Len(raw) /\ raw[j + 1] \in WS
        THEN RunEnd(raw, j + 1, WS) - 1
        ELSE 0

\* re.split(r'\s*\+|\s*,\s*|\s+and\s+', raw) from position pos on
RECURSIVE SplitTokens(_, _)
SplitTokens(raw, pos) ==
    LET starts == {i \in pos..Len(raw) : SeparatorEnd(raw, i) # 0}
    IN  IF starts = {} THEN <<From(raw, pos)>>
        ELSE LET i == Min(starts)
             IN  <<SubSeq(raw, pos, i - 1)>>
                 \o SplitTokens(raw, SeparatorEnd(raw, i) + 1)

\* tokens shorter than this many characters are dropped (len(cleaned) > 2)
MinTokenLen == 3

RECURSIVE FallbackResults(_)
FallbackResults(tokens) ==
    IF tokens = <<>> THEN <<>>
    ELSE LET cleaned == CleanToken(Head(tokens))
         IN  (IF cleaned # <<>> /\ CharLen(cleaned) >= MinTokenLen
              THEN <<[name |-> cleaned, descriptor |-> None]>>
              ELSE <<>>)
             \o FallbackResults(Tail(tokens))

\* `if not results:` the fallback runs when the primary pattern gave nothing
WithFallback(results, raw) ==
    IF results = <<>> THEN FallbackResults(SplitTokens(raw, 1)) ELSE results

extract_name_descriptor_pairs(raw) ==
    WithFallback(PrimaryResults(FindAllPairs(raw, 1)), raw)

----------------------------------------------------------------------------
(* first_sentence, build_sentence_map *)

Terminal == {".", "!", "?"}

\* re.split(r"(?<=[.!?])\s+", s) : split at each white-space run that
\* follows a sentence-terminal character
RECURSIVE SplitSentences(_, _)
SplitSentences(s, pos) ==
    LET cuts == {i \in (pos + 1)..Len(s) : s[i] \in WS /\ s[i - 1] \in Terminal}
    IN  IF cuts = {} THEN <<From(s, pos)>>
        ELSE LET i == Min(cuts)
             IN  <<SubSeq(s, pos, i - 1)>> \o SplitSentences(s, RunEnd(s, i, WS))

Sentences(t) == IF t = <<>> THEN <<>> ELSE SplitSentences(Strip(t), 1)

\* sentences[0].rstrip('. ') if sentences else ''
FirstOf(sentences) ==
    IF sentences = <<>> THEN <<>> ELSE StripSets(sentences[1], {}, {".", " "})

first_sentence(t) == FirstOf(Sentences(t))

RECURSIVE Mentioning(_, _)
Mentioning(sentences, name) ==
    IF sentences = <<>> THEN <<>>
    ELSE (IF Contains(Head(sentences), name) THEN <<Head(sentences)>> ELSE <<>>)
         \o Mentioning(Tail(sentences), name)

RECURSIVE SentenceMapFrom(_, _, _)
SentenceMapFrom(mapping, sentences, names) ==
    IF names = <<>> THEN mapping
    ELSE LET relevant == Mentioning(sentences, Head(names))
         IN  SentenceMapFrom(
                 IF relevant # <<>>
                 THEN DictSet(mapping, Head(names), Join(relevant, <<" ">>))
                 ELSE mapping,
                 sentences, Tail(names))

build_sentence_map(narrative, names) ==
    SentenceMapFrom(<<>>, Sentences(narrative), names)

----------------------------------------------------------------------------
(* exceptions and results *)

\* an exception a function raises: its class and the raise site
Raise(class, site) == [class |-> class, site |-> site]

\* the two result shapes of a function that may raise
Returned(value) == [error |-> None, value |-> value]

Raised(exc) == [error |-> Some(exc), value |-> <<>>]

\* the spec's names for the ValueErrors of parse_guest_table
MissingMarker(exc) ==
    exc.class = "ValueError" /\ exc.site \in {"table header", "detailed marker"}

EmptyResult(exc) == exc.class = "ValueError" /\ exc.site = "no guest rows"

----------------------------------------------------------------------------
(* literal markers *)

TableHeader ==
    <<"|", " ", "Guest Name", " ", "|", " ", "Domain", " ", "|", " ",
      "Relevance Summary", " ", "|">>

DetailedMarker == <<"Detailed Guest Profiles">>

StrategicMarker == <<"IV", ".", " ", "Strategic Analysis">>

EpisodeMarker == <<"1", ".", " ", "Thematic Pairing", ":">>

\* the atoms that begin with the letters "Thematic"
ThematicWords == {"Thematic Pairing", "Thematic Arc", "Thematic"}

----------------------------------------------------------------------------
(* splitting *)

\* s.split(sep) for a one-character separator, from position pos on
RECURSIVE SplitOn(_, _, _)
SplitOn(s, sep, pos) ==
    LET i == Find(s, <<sep>>, pos)
    IN  IF i = 0 THEN <<From(s, pos)>>
        ELSE <<SubSeq(s, pos, i - 1)>> \o SplitOn(s, sep, i + 1)

\* the pieces of s between the one-character cuts at the positions of cuts
RECURSIVE SplitAt(_, _, _)
SplitAt(s, cuts, pos) ==
    LET later == {i \in cuts : i >= pos}
    IN  IF later = {} THEN <<From(s, pos)>>
        ELSE <<SubSeq(s, pos, Min(later) - 1)>> \o SplitAt(s, cuts, Min(later) + 1)

\* the lookahead \d+\.\s at position i
NumberedAt(s, i) ==
    LET j == RunEnd(s, i, Digit)
    IN  j > i /\ j + 1 <= Len(s) /\ s[j] = "." /\ s[j + 1] \in WS

\* the lookahead \d+\.\s+Thematic at position i
ThematicAt(s, i) ==
    /\ NumberedAt(s, i)
    /\ LET w == RunEnd(s, RunEnd(s, i, Digit) + 1, WS)
       IN  w <= Len(s) /\ s[w] \in ThematicWords

\* re.split(r"\n(?=\d+\.\s)", s)
SplitNumbered(s) ==
    SplitAt(s, {i \in 1..Len(s) : s[i] = "\n" /\ NumberedAt(s, i + 1)}, 1)

\* re.split(r"\n(?=\d+\.\s+Thematic)", s)
SplitThematic(s) ==
    SplitAt(s, {i \in 1..Len(s) : s[i] = "\n" /\ ThematicAt(s, i + 1)}, 1)

\* [line.rstrip() for line in block.splitlines() if line.strip()]
RECURSIVE KeptLines(_)
KeptLines(lines) ==
    IF lines = <<>> THEN <<>>
    ELSE (IF Strip(Head(lines)) # <<>> THEN <<RStrip(Head(lines))>> ELSE <<>>)
         \o KeptLines(Tail(lines))

BlockLines(block) == KeptLines(SplitLines(block))

----------------------------------------------------------------------------
(* parse_guest_table *)

\* [col.strip() for col in stripped.split('|')[1:-1]]
Columns(stripped) ==
    LET parts == SplitOn(stripped, "|", 1)
    IN  [i \in 1..(Len(parts) - 2) |-> Strip(parts[i + 1])]

\* the body of the loop over the lines of the table section
TableLine(guests, line) ==
    LET stripped == Strip(line)
        columns  == Columns(stripped)
        name     == columns[1]
        domain   == IF Len(columns) > 1 THEN columns[2] ELSE <<>>
        summary  == IF Len(columns) > 2 THEN columns[3] ELSE <<>>
    IN  IF stripped = <<>> THEN guests
        ELSE IF StartsWith(stripped, <<"|", "---">>) THEN guests
        ELSE IF Contains(stripped, <<"|">>) /\ Len(columns) >= 2
                /\ name # <<>> /\ Lower(name) \notin {<<"guest name">>, <<"name">>}
        THEN DictSet(guests, name, [domain |-> domain, summary |-> summary])
        ELSE guests

RECURSIVE TableRows(_, _)
TableRows(guests, lines) ==
    IF lines = <<>> THEN guests
    ELSE TableRows(TableLine(guests, Head(lines)), Tail(lines))

\* a slip: the marker is searched from the start of the text
DetailedStartAnywhere(t, header_end) == Find(t, DetailedMarker, 1)

\* text.find('Detailed Guest Profiles', header_match.end())
DetailedStart(t, header_end) == Find(t, DetailedMarker, header_end)

\* a slip: the mapping is returned without the `if not guests` check
TableResultUnchecked(guests) == Returned(guests)

\* the check that ends parse_guest_table
TableResult(guests) ==
    IF guests = <<>> THEN Raised(Raise("ValueError", "no guest rows"))
    ELSE Returned(guests)

parse_guest_table(t) ==
    LET header_start   == Find(t, TableHeader, 1)
        header_end     == header_start + Len(TableHeader)
        detailed_start == DetailedStart(t, header_end)
        table_section  == SubSeq(t, header_end, detailed_start - 1)
    IN  IF header_start = 0 THEN Raised(Raise("ValueError", "table header"))
        ELSE IF detailed_start = 0
        THEN Raised(Raise("ValueError", "detailed marker"))
        ELSE TableResult(TableRows(<<>>, SplitLines(table_section)))

----------------------------------------------------------------------------
(* parse_guest_details *)

\* re.match(r"\d+\.\s+(.*)", header): the captured remainder, or None
NumberedHeader(header) ==
    IF NumberedAt(header, 1)
    THEN Some(From(header, RunEnd(header, RunEnd(header, 1, Digit) + 1, WS)))
    ELSE None

RECURSIVE DetailSections(_, _)
DetailSections(dets, sections) ==
    IF sections = <<>> THEN dets
    ELSE LET block == Strip(Head(sections))
             lines == BlockLines(block)
             match == NumberedHeader(lines[1])
         IN  DetailSections(
                 IF block = <<>> \/ match = None THEN dets
                 ELSE DictSet(dets, Strip(match[1]),
                              parse_structured_section(Tail(lines))),
                 Tail(sections))

\* a slip: the detail zone is not cut at 'IV. Strategic Analysis'
parse_guest_details_uncut(t) ==
    IF ~Contains(t, DetailedMarker) THEN <<>>
    ELSE DetailSections(<<>>,
             SplitNumbered(Strip(From(t, Find(t, DetailedMarker, 1) + Len(DetailedMarker)))))

parse_guest_details(t) ==
    IF ~Contains(t, DetailedMarker) THEN <<>>
    ELSE LET after == From(t, Find(t, DetailedMarker, 1) + Len(DetailedMarker))
             cut   == Find(after, StrategicMarker, 1)
             details_text == IF cut # 0 THEN SubSeq(after, 1, cut - 1) ELSE after
         IN  DetailSections(<<>>, SplitNumbered(Strip(details_text)))

----------------------------------------------------------------------------
(* build_guest_profiles *)

\* the truthy values of a list of Optional[str], unwrapped
RECURSIVE TruthyParts(_)
TruthyParts(opts) ==
    IF opts = <<>> THEN <<>>
    ELSE (IF Truthy(Head(opts)) THEN <<Head(opts)[1]>> ELSE <<>>)
         \o TruthyParts(Tail(opts))

\* f"{label}: {value}" when value is truthy, else nothing
Labelled(label, opt) ==
    IF Truthy(opt) THEN <<label \o <<":", " ">> \o opt[1]>> ELSE <<>>

\* a slip: the Potential Topic is appended before the Chemistry Tag
PersonaPartsSwapped(summary, rationale, chemistry, potential) ==
    TruthyParts(<<summary, rationale>>)
    \o Labelled(<<"Potential Topic">>, potential)
    \o Labelled(<<"Chemistry Tag">>, chemistry)

\* persona_parts: summary and rationale when truthy, then the labelled tags
PersonaParts(summary, rationale, chemistry, potential) ==
    TruthyParts(<<summary, rationale>>)
    \o Labelled(<<"Chemistry Tag">>, chemistry)
    \o Labelled(<<"Potential Topic">>, potential)

\* (table_entry or {}).get(key)
EntryGet(table_entry, key) ==
    IF table_entry = None THEN None ELSE Some(table_entry[1][key])

assemble_profile(name, info, table_entry) ==
    LET domain    == OrElse(DictGet(info, <<"Domain">>), EntryGet(table_entry, "domain"))
        rationale == DictGet(info, <<"Rationale">>)
        summary   == EntryGet(table_entry, "summary")
        chemistry == DictGet(info, <<"Chemistry Tag">>)
        potential == DictGet(info, <<"Potential Topic">>)
        persona_description ==
            Strip(Join(PersonaParts(summary, rationale, chemistry, potential), <<" ">>))
        background_parts ==
            Labelled(<<"Audience">>, DictGet(info, <<"Audience Type">>))
            \o Labelled(<<"Influence">>, DictGet(info, <<"Influence Level">>))
        background == OrElse(Some(Join(background_parts, <<" ", "|", " ">>)), None)
    IN  [name                |-> name,
         persona_description |-> persona_description,
         expertise           |-> domain,
         tone                |-> chemistry,
         background          |-> background,
         potential_topic     |-> potential,
         summary             |-> OrElse(summary, rationale)]

\* the first loop: one profile per table name
RECURSIVE TableProfiles(_, _, _)
TableProfiles(acc, tbl, dets) ==
    IF tbl = <<>> THEN acc
    ELSE LET name == Head(tbl).k
             spec == assemble_profile(name, DictGetOr(dets, name, <<>>),
                                      Some(Head(tbl).v))
         IN  TableProfiles([profiles |-> Append(acc.profiles, spec),
                            by_name  |-> DictSet(acc.by_name, name, spec)],
                           Tail(tbl), dets)

\* a slip: the second loop never skips a name
AlreadyBuiltNever(name, by) == FALSE

\* the guard of the second loop: `if name in by_name: continue`
AlreadyBuilt(name, by) == name \in Keys(by)

\* the second loop: one profile per name found only in the details
RECURSIVE DetailProfiles(_, _)
DetailProfiles(acc, dets) ==
    IF dets = <<>> THEN acc
    ELSE LET name == Head(dets).k
             spec == assemble_profile(name, Head(dets).v, None)
         IN  DetailProfiles(
                 IF AlreadyBuilt(name, acc.by_name) THEN acc
                 ELSE [profiles |-> Append(acc.profiles, spec),
                       by_name  |-> DictSet(acc.by_name, name, spec)],
                 Tail(dets))

build_guest_profiles(tbl, dets) ==
    DetailProfiles(TableProfiles([profiles |-> <<>>, by_name |-> <<>>], tbl, dets),
                   dets)

----------------------------------------------------------------------------
(* parse_episode_specs *)

Names(guests) == [i \in 1..Len(guests) |-> guests[i].name]

\* f"{name} ({descriptor})" if descriptor else name
Rendered(guest) ==
    IF Truthy(guest.descriptor)
    THEN guest.name \o <<" ", "(">> \o guest.descriptor[1] \o <<")">>
    ELSE guest.name

\* header.split(':', 1)[1].strip(); the caller checks that ':' occurs
Theme(header) == Strip(From(header, Find(header, <<":">>, 1) + 1))

\* title of a Thematic Pairing episode
PairingTitle(theme, subtitle) ==
    IF subtitle # <<>> THEN theme \o <<":", " ">> \o subtitle ELSE theme

\* the EpisodeSpec of a Thematic Pairing block, from its evaluated locals
PairingSpec(theme, concept, engineered, raw_pairing, guests) ==
    LET descriptor_text ==
            Join([i \in 1..Len(guests) |-> Rendered(guests[i])], <<" ", "&", " ">>)
        description_parts ==
            <<concept, engineered>>
            \o (IF descriptor_text # <<>>
                THEN <<<<"Featuring", " ">> \o descriptor_text \o <<".">>>>
                ELSE <<>>)
    IN  [title       |-> PairingTitle(theme, first_sentence(concept)),
         description |-> Strip(Join(NonEmpty(description_parts), <<" ">>)),
         guest_names |-> Names(guests),
         theme       |-> theme,
         notes       |-> [pairing |-> raw_pairing, concept |-> concept,
                          engineered |-> engineered]]

\* raw_pairing = fields.get('Proposed Pairing', '') and its guests
PairingOf(theme, concept, engineered, raw_pairing) ==
    PairingSpec(theme, concept, engineered, raw_pairing,
                extract_name_descriptor_pairs(raw_pairing))

PairingEpisode(header, fields) ==
    PairingOf(Theme(header),
              Strip(DictGetOr(fields, <<"Concept">>, <<>>)),
              Strip(DictGetOr(fields, <<"Engineered Dialogue">>, <<>>)),
              DictGetOr(fields, <<"Proposed Pairing">>, <<>>))

\* descriptor or f"Conversation with {name}"
PartTitle(guest) ==
    IF Truthy(guest.descriptor) THEN guest.descriptor[1]
    ELSE <<"Conversation", " ", "with", " ">> \o guest.name

\* the episode of the guest at 1-based position idx of a Thematic Arc
ArcEpisode(theme, concept, narrative, sentence_map, guest, idx) ==
    LET mapped == DictGetOr(sentence_map, guest.name, <<>>)
        description_parts ==
            <<concept>>
            \o (IF mapped # <<>> THEN <<mapped>> ELSE <<>>)
            \o <<<<"Featuring", " ">> \o guest.name \o <<".">>>>
    IN  [title       |-> theme \o <<" ", "(", "Part", " ">> \o Str(idx)
                         \o <<")", ":", " ">> \o PartTitle(guest),
         description |-> Strip(Join(NonEmpty(description_parts), <<" ">>)),
         guest_names |-> <<guest.name>>,
         theme       |-> theme,
         notes       |-> [concept |-> concept, narrative |-> narrative,
                          part |-> Str(idx)]]

\* the loop `for idx, (name, descriptor) in enumerate(guests, start=1)`
ArcLoop(theme, concept, narrative, sentence_map, guests) ==
    [idx \in 1..Len(guests) |->
        ArcEpisode(theme, concept, narrative, sentence_map, guests[idx], idx)]

\* guests = extract_name_descriptor_pairs(raw_guests) and their sentence map
ArcOf(theme, concept, narrative, guests) ==
    ArcLoop(theme, concept, narrative,
            build_sentence_map(narrative, Names(guests)), guests)

ArcEpisodes(header, fields) ==
    ArcOf(Theme(header),
          Strip(DictGetOr(fields, <<"Concept">>, <<>>)),
          Strip(DictGetOr(fields, <<"Narrative Flow">>, <<>>)),
          extract_name_descriptor_pairs(DictGetOr(fields, <<"Guests">>, <<>>)))

IsPairing(header) == Contains(header, <<"Thematic Pairing">>)

IsArc(header) == Contains(header, <<"Thematic Arc">>)

\* header.split(':', 1)[1] raises IndexError when the header has no ':'
ThemeRaises(header) == ~Contains(header, <<":">>)

\* the branch on the header of a block: the episodes it appends, or the
\* IndexError it raises
HeaderEpisodes(header, fields) ==
    IF IsPairing(header)
    THEN IF ThemeRaises(header) THEN Raised(Raise("IndexError", "pairing theme"))
         ELSE Returned(<<PairingEpisode(header, fields)>>)
    ELSE IF IsArc(header)
    THEN IF ThemeRaises(header) THEN Raised(Raise("IndexError", "arc theme"))
         ELSE Returned(ArcEpisodes(header, fields))
    ELSE Returned(<<>>)

\* header = lines[0]; fields = parse_structured_section(lines[1:])
LinesEpisodes(lines) ==
    HeaderEpisodes(lines[1], parse_structured_section(Tail(lines)))

\* the body of the loop over sections, for block = section.strip()
BlockEpisodes(block) ==
    IF block = <<>> THEN Returned(<<>>) ELSE LinesEpisodes(BlockLines(block))

SectionEpisodes(section) == BlockEpisodes(Strip(section))

RECURSIVE EpisodeSections(_, _)

\* after one section: stop on its exception, else go on with the rest
AfterSection(eps, r, rest) ==
    IF r.error # None THEN r ELSE EpisodeSections(eps \o r.value, rest)

EpisodeSections(eps, sections) ==
    IF sections = <<>> THEN Returned(eps)
    ELSE AfterSection(eps, SectionEpisodes(Head(sections)), Tail(sections))

\* the sections parse_episode_specs iterates over; <<>> without the marker
Sections(t) ==
    LET start_idx == Find(t, EpisodeMarker, 1)
    IN  IF start_idx = 0 THEN <<>>
        ELSE SplitThematic(Strip(From(t, start_idx)))

parse_episode_specs(t) == EpisodeSections(<<>>, Sections(t))

----------------------------------------------------------------------------
(* load_research *)

\* guests, guest_map = build_guest_profiles(table, details), then the episodes
Loaded(built, eps) ==
    IF eps.error # None THEN eps
    ELSE Returned([guests |-> built.profiles, guest_map |-> built.by_name,
                   episodes |-> eps.value])

\* a slip: a failed guest table is replaced by an empty one and the run goes on
AfterTableRecovering(tbl, t) ==
    Loaded(build_guest_profiles(IF tbl.error # None THEN <<>> ELSE tbl.value,
                                parse_guest_details(t)),
           parse_episode_specs(t))

\* after parse_guest_table: its exception ends load_research
AfterTable(tbl, t) ==
    IF tbl.error # None THEN tbl
    ELSE Loaded(build_guest_profiles(tbl.value, parse_guest_details(t)),
                parse_episode_specs(t))

\* the result of load_research on the text of the research file
load_research(t) == AfterTable(parse_guest_table(t), t)

----------------------------------------------------------------------------
(* research documents: the inputs the specifications draw from *)

\* the sequences over S of length at most n
SeqsUpTo(S, n) == UNION {[1..m -> S] : m \in 0..n}

\* the concatenation of a sequence of texts
RECURSIVE Concat(_)
Concat(parts) == IF parts = <<>> THEN <<>> ELSE Head(parts) \o Concat(Tail(parts))

Line(s) == s \o <<"\n">>

\* a markdown table row: "| c1 | c2 | ... |"
RECURSIVE Cells(_)
Cells(cells) ==
    IF cells = <<>> THEN <<>>
    ELSE <<" ">> \o Head(cells) \o <<" ", "|">> \o Cells(Tail(cells))

Row(cells) == <<"|">> \o Cells(cells)

\* a bullet line "* key: value"
Bullet(key, value) == <<"*", " ", key, ":", " ">> \o value

\* the rows a guest table may hold between its header and the marker
RowKinds ==
    { Row(<< <<"Jane">>, <<"Macro">>, <<"Sharp">> >>),
      Row(<< <<"Al">>, <<"VC">> >>),
      Row(<< <<"Jane">>, <<"Tech">>, <<"Other">> >>),
      <<"|", "---", "|", "---", "|", "---", "|">>,
      Row(<< <<"---">>, <<"---">>, <<"---">> >>),
      TableHeader,
      Row(<< <<"Jane">> >>),
      <<"Jane", " ", "|", " ", "Macro">>,
      <<>> }

\* what may precede the table header
Preambles == { <<>>, Line(<<"Intro">>), Line(DetailedMarker) }

\* what may follow the table: nothing, or the marker with detail blocks
DetailBlockKinds ==
    { <<>>,
      Line(<<"1", ".", " ", "Jane">>)
        \o Line(Bullet("Domain", <<"Tech">>))
        \o Line(Bullet("Rationale", <<"Deep">>)),
      Line(<<"2", ".", " ", "Bo">>)
        \o Line(Bullet("Chemistry Tag", <<"Contrarian">>)) }

\* the number of rows of a generated guest table
MaxRows == 2

TableDocs ==
    { pre \o hdr \o Concat([i \in 1..Len(rows) |-> Line(rows[i])]) \o mark \o det :
        pre \in Preambles,
        hdr \in { <<>>, Line(TableHeader) },
        rows \in SeqsUpTo(RowKinds, MaxRows),
        mark \in { <<>>, Line(DetailedMarker) },
        det \in DetailBlockKinds }

----------------------------------------------------------------------------
(* parse_guest_table applied to a document *)

\* the variables of main, unused while one function is exercised
\* the variables of main, while main is not running
DriverIdle ==
    /\ rc = None /\ api_log = <<>> /\ args = <<>> /\ dev = <<>>
    /\ research_exists = TRUE /\ existing_by_name = <<>> /\ guest_ids = <<>>
    /\ created_episodes = <<>> /\ episode = None /\ spec_idx = 0 /\ name_idx = 0

DriverUnchanged ==
    UNCHANGED <<rc, api_log, args, dev, research_exists, existing_by_name,
                guest_ids, created_episodes, episode, spec_idx, name_idx>>

\* parse_structured_section before its first line: no field, no open key
SectionIdle ==
    /\ raw_lines = <<>>
    /\ scan = [fields |-> <<>>, current_key |-> None]

SectionUnchanged == UNCHANGED <<raw_lines, scan>>

PairsUnchanged == UNCHANGED <<name_pairs>>

\* import_episodes of import_json_data.py before it is called
ImportIdle ==
    /\ json_file = None
    /\ dry_run = FALSE
    /\ counts = [created |-> 0, updated |-> 0, skipped |-> 0]
    /\ episode_idx = 0
    /\ calls = <<>>

ImportUnchanged == UNCHANGED <<json_file, dry_run, counts, episode_idx, calls>>

\* the results of the helper functions when they are called on their own
HelpersIdle == name_pairs = <<>> /\ SectionIdle /\ ImportIdle

HelpersUnchanged == PairsUnchanged /\ SectionUnchanged /\ ImportUnchanged

MainIdle == DriverIdle /\ HelpersIdle

MainUnchanged == DriverUnchanged /\ HelpersUnchanged

InitTable ==
    /\ pc = "parse_guest_table"
    /\ text \in TableDocs
    /\ table = <<>> /\ details = <<>> /\ profiles = <<>> /\ by_name = <<>>
    /\ episodes = <<>> /\ error = None
    /\ MainIdle

\* the call ends: it returns the mapping or raises
TableEnds(r) ==
    /\ table' = r.value
    /\ error' = r.error
    /\ pc' = IF r.error = None THEN "returned" ELSE "raised"

TableCall ==
    /\ pc = "parse_guest_table"
    /\ TableEnds(parse_guest_table(text))
    /\ UNCHANGED <<text, details, profiles, by_name, episodes>>
    /\ MainUnchanged

NextTable == TableCall

SpecTable == InitTable /\ [][NextTable]_vars

----------------------------------------------------------------------------
(* parse_episode_specs applied to a document *)

\* guest listings
TwoDescribed ==
    <<"Jane", " ", "(", "skeptic", ")", " ", "+", " ",
      "John", " ", "(", "believer", ")">>

BlankDescriptor == <<"Jane", " ", "(", " ", ")">>

TwoPlain == <<"Jane", " ", "and", " ", "John">>

\* a numbered section header "<number>. <kind>" with ": <theme>" when colon
Heading(number, kind, colon, theme) ==
    number \o <<".", " ", kind>>
    \o (IF colon THEN <<":">> \o (IF theme = <<>> THEN <<>> ELSE <<" ">> \o theme)
        ELSE <<>>)

\* the block that starts the episode zone: it holds the episode marker
FirstBlocks ==
    { Line(Heading(<<"1">>, "Thematic Pairing", TRUE, <<"Money">>))
        \o Line(Bullet("Concept", <<"Bold", " ", "idea", ".", " ", "More", ".">>))
        \o Line(Bullet("Engineered Dialogue", <<"Clash">>))
        \o Line(Bullet("Proposed Pairing", TwoDescribed)),
      Line(Heading(<<"1">>, "Thematic Pairing", TRUE, <<>>)),
      Line(Heading(<<"1">>, "Thematic Pairing", TRUE, <<"Money">>))
        \o Line(Bullet("Proposed Pairing", TwoPlain)) }

\* the numbered blocks that may follow
BlockKinds ==
    { Line(Heading(<<"2">>, "Thematic Pairing", TRUE, <<"Trust">>))
        \o Line(Bullet("Concept", <<"Idea">>))
        \o Line(Bullet("Proposed Pairing", BlankDescriptor)),
      Line(Heading(<<"2">>, "Thematic Pairing", TRUE, <<>>)),
      Line(Heading(<<"2">>, "Thematic Pairing", FALSE, <<>>))
        \o Line(Bullet("Proposed Pairing", TwoDescribed)),
      Line(Heading(<<"2">>, "Thematic Arc", TRUE, <<"Power">>))
        \o Line(Bullet("Guests", TwoDescribed))
        \o Line(Bullet("Narrative Flow",
                       <<"Jane", " ", "starts", ".", " ", "John", " ", "ends", ".">>)),
      Line(Heading(<<"2">>, "Thematic Arc", TRUE, <<"Power">>))
        \o Line(Bullet("Guests", BlankDescriptor)),
      Line(Heading(<<"1", "2">>, "Thematic Arc", TRUE, <<"Power">>))
        \o Line(Bullet("Concept", <<"Idea">>))
        \o Line(Bullet("Guests", TwoPlain)),
      Line(Heading(<<"2">>, "Thematic Arc", TRUE, <<"Power">>)),
      Line(Heading(<<"2">>, "Thematic Arc", FALSE, <<>>))
        \o Line(Bullet("Guests", TwoDescribed)),
      Line(Heading(<<"2">>, "Thematic Arc", TRUE, <<"Thematic Pairing">>))
        \o Line(Bullet("Guests", TwoDescribed)),
      Line(Heading(<<"2">>, "Thematic", TRUE, <<"Other">>))
        \o Line(Bullet("Guests", TwoDescribed)) }

\* the number of numbered blocks after the first one
MaxBlocks == 2

EpisodeDocs ==
    { pre \o first \o Concat(blocks) :
        pre \in { <<>>, Line(<<"Intro">>) },
        first \in FirstBlocks \cup { <<>> },
        blocks \in SeqsUpTo(BlockKinds, MaxBlocks) }

InitEpisodes ==
    /\ pc = "parse_episode_specs"
    /\ text \in EpisodeDocs
    /\ table = <<>> /\ details = <<>> /\ profiles = <<>> /\ by_name = <<>>
    /\ episodes = <<>> /\ error = None
    /\ MainIdle

\* the call ends: it returns the episode list or raises
EpisodesEnd(r) ==
    /\ episodes' = r.value
    /\ error' = r.error
    /\ pc' = IF r.error = None THEN "returned" ELSE "raised"

EpisodesCall ==
    /\ pc = "parse_episode_specs"
    /\ EpisodesEnd(parse_episode_specs(text))
    /\ UNCHANGED <<text, table, details, profiles, by_name>>
    /\ MainUnchanged

NextEpisodes == EpisodesCall

SpecEpisodes == InitEpisodes /\ [][NextEpisodes]_vars

----------------------------------------------------------------------------
(* claims about parse_guest_table, checked under SpecTable *)

TableCallEnded == pc \in {"returned", "raised"}

HeaderFound == Contains(text, TableHeader)

\* the position just past the first occurrence of the header row
HeaderEnd == Find(text, TableHeader, 1) + Len(TableHeader)

\* the marker occurs at some position after the end of the header
MarkerAfterHeader ==
    HeaderFound /\ \E m \in Occurrences(text, DetailedMarker) : m >= HeaderEnd

\* the lines between the header and the first marker after it
BodyLines ==
    SplitLines(SubSeq(text, HeaderEnd, Find(text, DetailedMarker, HeaderEnd) - 1))

\* C3: parse_guest_table fails with MissingMarker, returning no mapping,
\* whenever the header row does not occur in the text, and whenever it occurs
\* but 'Detailed Guest Profiles' occurs at no position after the header's end
C3_MissingMarker ==
    TableCallEnded /\ (~HeaderFound \/ ~MarkerAfterHeader)
    => /\ pc = "raised"
       /\ MissingMarker(error[1])
       /\ error[1].site = (IF HeaderFound THEN "detailed marker" ELSE "table header")
       /\ table = <<>>

\* C3 witness: the header is there and the marker occurs only before it
C3_Witness ==
    /\ pc = "raised"
    /\ HeaderFound
    /\ Contains(text, DetailedMarker)
    /\ ~MarkerAfterHeader
    /\ MissingMarker(error[1])

\* C4: with the header and a later marker found but no line between them
\* yielding a guest entry, parse_guest_table fails with EmptyResult; it never
\* returns an empty mapping
C4_EmptyResult ==
    /\ TableCallEnded /\ MarkerAfterHeader
       /\ (\A i \in 1..Len(BodyLines) : TableLine(<<>>, BodyLines[i]) = <<>>)
       => pc = "raised" /\ EmptyResult(error[1]) /\ table = <<>>
    /\ pc = "returned" => table # <<>>

\* C4 witness: rows lie between header and marker, none of them a guest entry
C4_Witness ==
    /\ pc = "raised"
    /\ MarkerAfterHeader
    /\ \E i \in 1..Len(BodyLines) : Strip(BodyLines[i]) # <<>>
    /\ EmptyResult(error[1])

----------------------------------------------------------------------------
(* claims about parse_episode_specs, checked under SpecEpisodes *)

EpisodesCallEnded == pc \in {"returned", "raised"}

\* the non-empty blocks of the document, each as its list of kept lines
DocBlocks ==
    LET secs == Sections(text)
        kept == [i \in 1..Len(secs) |-> BlockLines(Strip(secs[i]))]
    IN  SelectSeq(kept, LAMBDA lines : lines # <<>>)

\* the pairs the Guests field of a block yields
BlockGuests(lines) ==
    extract_name_descriptor_pairs(
        DictGetOr(parse_structured_section(Tail(lines)), <<"Guests">>, <<>>))

RECURSIVE ExpectedCount(_)
\* one per Pairing header, plus the number of guests of every Arc header
ExpectedCount(blocks) ==
    IF blocks = <<>> THEN 0
    ELSE (IF IsPairing(Head(blocks)[1]) THEN 1 ELSE 0)
         + (IF IsArc(Head(blocks)[1]) THEN Len(BlockGuests(Head(blocks))) ELSE 0)
         + ExpectedCount(Tail(blocks))

\* C1: for any document, parse_episode_specs returns as many EpisodeSpec
\* records as there are blocks whose header contains 'Thematic Pairing', plus,
\* for every block whose header contains 'Thematic Arc', the number of pairs
\* extract_name_descriptor_pairs returns for its Guests field
C1_EpisodeCount ==
    EpisodesCallEnded
    => pc = "returned" /\ Len(episodes) = ExpectedCount(DocBlocks)

\* the title the claim gives record i of an Arc block with the given theme
ArcTitle(theme, guest, i) ==
    theme \o <<" ", "(", "Part", " ">> \o Str(i) \o <<")", ":", " ">>
    \o (IF guest.descriptor # None /\ guest.descriptor # Some(<<>>)
        THEN guest.descriptor[1]
        ELSE <<"Conversation", " ", "with", " ">> \o guest.name)

\* records k+1 .. k+n of the result are the n parts of the Arc block
ArcPartsAt(k, theme, guests) ==
    /\ k + Len(guests) <= Len(episodes)
    /\ \A i \in 1..Len(guests) :
          /\ episodes[k + i].guest_names = <<guests[i].name>>
          /\ "part" \in DOMAIN episodes[k + i].notes
          /\ episodes[k + i].notes.part = Str(i)
          /\ episodes[k + i].title = ArcTitle(theme, guests[i], i)

\* the blocks the claim is about: header with 'Thematic Arc' (and not also
\* 'Thematic Pairing')
ArcBlocks ==
    SelectSeq(DocBlocks, LAMBDA lines : IsArc(lines[1]) /\ ~IsPairing(lines[1]))

\* C2: for a 'Thematic Arc' block whose Guests field yields n ordered pairs,
\* parse_episode_specs emits n consecutive records in guest order, record i
\* with guest_names = [name_i], notes.part = i and title = theme
\* + " (Part i): " + (d_i if present, else "Conversation with " + name_i)
C2_ArcParts ==
    EpisodesCallEnded
    => \A b \in 1..Len(ArcBlocks) :
          /\ pc = "returned"
          /\ \E k \in 0..Len(episodes) :
                ArcPartsAt(k, Theme(ArcBlocks[b][1]), BlockGuests(ArcBlocks[b]))

\* C10: every EpisodeSpec parse_episode_specs produces has a non-empty title
\* and a non-empty description
C10_NonEmpty ==
    pc = "returned"
    => \A i \in 1..Len(episodes) :
          episodes[i].title # <<>> /\ episodes[i].description # <<>>

----------------------------------------------------------------------------
(* build_guest_profiles applied to a table mapping and a detail mapping *)

GuestNames == { <<"Jane", " ", "Doe">>, <<"John", " ", "Roe">>, <<"Ann", " ", "Lee">> }

SharpTakes == <<"Sharp", " ", "macro", " ", "takes">>

\* the {domain, summary} entries parse_guest_table can store: trimmed cells,
\* either of which may be empty
TableEntries ==
    { [domain |-> <<"Macro">>, summary |-> SharpTakes],
      [domain |-> <<"Macro">>, summary |-> <<>>],
      [domain |-> <<>>,        summary |-> SharpTakes] }

Field(key, value) == [k |-> <<key>>, v |-> value]

\* the field mappings parse_structured_section can return for a detail block
DetailEntries ==
    { <<>>,
      << Field("Rationale", SharpTakes) >>,
      << Field("Domain", <<"Rates">>),
         Field("Rationale", <<"Knows", " ", "rates">>),
         Field("Chemistry Tag", <<"Contrarian">>),
         Field("Potential Topic", <<"Rate", " ", "cuts">>) >>,
      << Field("Domain", <<>>),
         Field("Potential Topic", <<"Rate", " ", "cuts">>),
         Field("Audience Type", <<"Retail">>),
         Field("Influence Level", <<"High">>) >> }

\* the number of names of a table mapping, and of a detail mapping
MaxTableNames == 2

MaxDetailNames == 2

\* the ordered mappings with distinct keys, between lo and hi of them
Mappings(keys, values, lo, hi) ==
    { d \in SeqsUpTo([k : keys, v : values], hi) :
        /\ Len(d) >= lo
        /\ \A i, j \in 1..Len(d) : i # j => d[i].k # d[j].k }

InitProfiles ==
    /\ pc = "build_guest_profiles"
    /\ table \in Mappings(GuestNames, TableEntries, 1, MaxTableNames)
    /\ details \in Mappings(GuestNames, DetailEntries, 0, MaxDetailNames)
    /\ text = <<>> /\ profiles = <<>> /\ by_name = <<>>
    /\ episodes = <<>> /\ error = None
    /\ MainIdle

\* the call returns the pair (profiles, by_name)
ProfilesEnd(built) ==
    /\ profiles' = built.profiles
    /\ by_name' = built.by_name
    /\ pc' = "returned"

ProfilesCall ==
    /\ pc = "build_guest_profiles"
    /\ ProfilesEnd(build_guest_profiles(table, details))
    /\ UNCHANGED <<text, table, details, episodes, error>>
    /\ MainUnchanged

NextProfiles == ProfilesCall

SpecProfiles == InitProfiles /\ [][NextProfiles]_vars

----------------------------------------------------------------------------
(* claims about build_guest_profiles, checked under SpecProfiles *)

\* a value that is there and is not the empty string
Present(opt) == opt # None /\ opt # Some(<<>>)

\* the table summary and the table domain of a name, absent without a row
TableSummary(name) ==
    IF name \in Keys(table) THEN Some(DictGetOr(table, name, <<>>).summary) ELSE None

TableDomain(name) ==
    IF name \in Keys(table) THEN Some(DictGetOr(table, name, <<>>).domain) ELSE None

\* a field of the detail block of a name, absent without block or field
DetailField(name, key) == DictGet(DictGetOr(details, name, <<>>), <<key>>)

Prefixed(label, opt) ==
    IF Present(opt) THEN Some(<<label, ":", " ">> \o opt[1]) ELSE None

\* the four parts of the claim, in its order
ClaimedParts(name) ==
    << TableSummary(name),
       DetailField(name, "Rationale"),
       Prefixed("Chemistry Tag", DetailField(name, "Chemistry Tag")),
       Prefixed("Potential Topic", DetailField(name, "Potential Topic")) >>

RECURSIVE SpaceJoined(_)
\* the single-space join of the parts that are present
SpaceJoined(parts) ==
    IF parts = <<>> THEN <<>>
    ELSE LET rest == SpaceJoined(Tail(parts))
         IN  IF ~Present(Head(parts)) THEN rest
             ELSE IF rest = <<>> THEN Head(parts)[1]
             ELSE Head(parts)[1] \o <<" ">> \o rest

\* the derivation rules of the claim, for one profile
DerivedAsClaimed(p) ==
    /\ p.persona_description = SpaceJoined(ClaimedParts(p.name))
    /\ p.tone = DetailField(p.name, "Chemistry Tag")
    /\ p.potential_topic = DetailField(p.name, "Potential Topic")
    /\ p.expertise = (IF Present(DetailField(p.name, "Domain"))
                      THEN DetailField(p.name, "Domain") ELSE TableDomain(p.name))
    /\ p.summary = (IF Present(TableSummary(p.name))
                    THEN TableSummary(p.name) ELSE DetailField(p.name, "Rationale"))

\* a profile built from a table row alone
RowOnly(p) == p.name \in Keys(table) /\ p.name \notin Keys(details)

\* C7 as stated: every profile follows the derivation rules, and a table row
\* with no detail block gives persona_description = summary = the table
\* summary and expertise = the table domain
C7_AsStated ==
    pc = "returned"
    => \A i \in 1..Len(profiles) :
          /\ DerivedAsClaimed(profiles[i])
          /\ RowOnly(profiles[i])
             => /\ Some(profiles[i].persona_description) = TableSummary(profiles[i].name)
                /\ profiles[i].summary = TableSummary(profiles[i].name)
                /\ profiles[i].expertise = TableDomain(profiles[i].name)

\* C7 (amended): every profile follows the derivation rules; a table row with
\* no detail block gives persona_description = the table summary and
\* expertise = the table domain, and summary = the table summary when that is
\* non-empty, while an empty table summary leaves summary absent
C7_Derivation ==
    pc = "returned"
    => \A i \in 1..Len(profiles) :
          /\ DerivedAsClaimed(profiles[i])
          /\ RowOnly(profiles[i])
             => /\ Some(profiles[i].persona_description) = TableSummary(profiles[i].name)
                /\ profiles[i].expertise = TableDomain(profiles[i].name)
                /\ profiles[i].summary =
                      (IF Present(TableSummary(profiles[i].name))
                       THEN TableSummary(profiles[i].name) ELSE None)

\* C7 witness: a merged profile with all four parts, next to a profile built
\* from a table row alone whose summary cell is empty
C7_Witness ==
    /\ pc = "returned"
    /\ \E i \in 1..Len(profiles) :
          \A j \in 1..4 : Present(ClaimedParts(profiles[i].name)[j])
    /\ \E i \in 1..Len(profiles) :
          /\ RowOnly(profiles[i])
          /\ TableSummary(profiles[i].name) = Some(<<>>)
          /\ profiles[i].summary = None

\* C8: when the table summary and the detail Rationale of a guest are the same
\* non-empty string, that text occurs exactly once in persona_description
C8_RationaleOnce ==
    pc = "returned"
    => \A i \in 1..Len(profiles) :
          /\ Present(TableSummary(profiles[i].name))
          /\ TableSummary(profiles[i].name) = DetailField(profiles[i].name, "Rationale")
          => Cardinality(Occurrences(profiles[i].persona_description,
                                     TableSummary(profiles[i].name)[1])) = 1

ProfileNames == [i \in 1..Len(profiles) |-> profiles[i].name]

\* the names found only in the detail mapping, in detail encounter order
DetailOnly == SelectSeq(KeySeq(details), LAMBDA name : name \notin Keys(table))

\* C9: the profile list holds every table name in table order, then every
\* detail-only name in detail order; no two profiles share a name, there is
\* one profile per name of the union, and by_name maps each name to the
\* profile of the list with that name
C9_Ordering ==
    pc = "returned"
    => /\ ProfileNames = KeySeq(table) \o DetailOnly
       /\ \A i, j \in 1..Len(profiles) :
             profiles[i].name = profiles[j].name => i = j
       /\ Len(profiles) = Cardinality(Keys(table) \cup Keys(details))
       /\ Keys(by_name) = Keys(table) \cup Keys(details)
       /\ Len(by_name) = Len(profiles)
       /\ \A i \in 1..Len(profiles) :
             DictGet(by_name, profiles[i].name) = Some(profiles[i])

\* C9 witness: two table names, one of them also in the details, and a
\* detail-only name placed before it in the detail mapping
C9_Witness ==
    /\ pc = "returned"
    /\ Len(table) = 2
    /\ Len(details) = 2
    /\ details[1].k \notin Keys(table)
    /\ details[2].k \in Keys(table)
    /\ Len(profiles) = 3

----------------------------------------------------------------------------
(* load_research applied to the text of a research file *)

\* the guest-table part of a research file: sound, or lacking header, marker
\* or rows
\* an early 'Detailed Guest Profiles' followed by a numbered block, put
\* before the table
EarlyDetail ==
    Line(DetailedMarker)
    \o Line(<<"1", ".", " ", "Overview">>)
    \o Line(Bullet("Domain", <<"Tech">>))

TableParts ==
    { pre \o hdr \o rows \o mark \o det :
        pre \in Preambles \cup {EarlyDetail},
        hdr \in { <<>>, Line(TableHeader) },
        rows \in { <<>>,
                   Line(Row(<< <<"Jane">>, <<"Macro">>, <<"Sharp">> >>)),
                   Line(<<"|", "---", "|", "---", "|", "---", "|">>),
                   Line(Row(<< <<"Jane">>, <<"Macro">>, <<>> >>))
                     \o Line(Row(<< <<"John">>, <<"Tech">>, <<"Other">> >>)) },
        mark \in { <<>>, Line(DetailedMarker) },
        det \in DetailBlockKinds }

\* the episode part: nothing, or the marker block followed by an Arc
EpisodeParts ==
    { <<>> } \cup FirstBlocks
    \cup { Line(Heading(<<"1">>, "Thematic Pairing", TRUE, <<"Money">>))
           \o Line(Heading(<<"2">>, "Thematic Arc", TRUE, <<"Power">>))
           \o Line(Bullet("Guests", TwoDescribed)),
           Line(Heading(<<"1">>, "Thematic Pairing", TRUE, <<"Money">>))
           \o Line(Heading(<<"2">>, "Thematic Arc", FALSE, <<>>)) }

LoadDocs == { t \o e : t \in TableParts, e \in EpisodeParts }

InitLoad ==
    /\ pc = "load_research"
    /\ text \in LoadDocs
    /\ table = <<>> /\ details = <<>> /\ profiles = <<>> /\ by_name = <<>>
    /\ episodes = <<>> /\ error = None
    /\ MainIdle

\* the call returns (guests, guest_map, episodes) or raises
LoadEnds(r) ==
    /\ error' = r.error
    /\ profiles' = IF r.error = None THEN r.value.guests ELSE <<>>
    /\ by_name' = IF r.error = None THEN r.value.guest_map ELSE <<>>
    /\ episodes' = IF r.error = None THEN r.value.episodes ELSE <<>>
    /\ pc' = IF r.error = None THEN "returned" ELSE "raised"

LoadCall ==
    /\ pc = "load_research"
    /\ LoadEnds(load_research(text))
    /\ UNCHANGED <<text, table, details>>
    /\ MainUnchanged

NextLoad == LoadCall

SpecLoad == InitLoad /\ [][NextLoad]_vars

\* the outcome of parse_guest_table on the text of the file
TableOutcome == parse_guest_table(text)

\* C5: load_research aborts with the guest-table error, with no profiles and
\* no episodes, whenever parse_guest_table fails, whatever episode sections
\* the text holds; a text with a valid guest table and no
\* '1. Thematic Pairing:' marker makes it return the guest profiles and an
\* empty episode list
C5_LoadResearch ==
    pc \in {"returned", "raised"}
    => /\ TableOutcome.error # None
          => /\ pc = "raised"
             /\ error = TableOutcome.error
             /\ MissingMarker(error[1]) \/ EmptyResult(error[1])
             /\ profiles = <<>> /\ by_name = <<>> /\ episodes = <<>>
       /\ TableOutcome.error = None /\ ~Contains(text, EpisodeMarker)
          => /\ pc = "returned"
             /\ episodes = <<>>
             /\ ProfileNames # <<>>
             /\ \A n \in Keys(TableOutcome.value) : n \in Keys(by_name)

\* C5 witness: the guest table fails although an episode section is there
C5_WitnessAbort ==
    /\ pc = "raised"
    /\ Contains(text, EpisodeMarker)
    /\ EmptyResult(error[1])

----------------------------------------------------------------------------
(* main: the import driver *)

\* the research files main is run on
MainTables ==
    { Line(TableHeader)
        \o Line(Row(<< <<"Jane">>, <<"Macro">>, <<"Sharp">> >>))
        \o Line(DetailedMarker),
      Line(TableHeader)
        \o Line(Row(<< <<"Jane">>, <<"Macro">>, <<"Sharp">> >>))
        \o Line(Row(<< <<"John">>, <<"Tech">>, <<>> >>))
        \o Line(DetailedMarker)
        \o Line(<<"1", ".", " ", "Jane">>)
        \o Line(Bullet("Chemistry Tag", <<"Contrarian">>)),
      Line(Row(<< <<"Jane">>, <<"Macro">>, <<"Sharp">> >>))
        \o Line(DetailedMarker),
      Line(TableHeader)
        \o Line(Row(<< <<"John">>, <<"Tech">>, <<"Bold">> >>))
        \o Line(DetailedMarker),
      Line(TableHeader)
        \o Line(Row(<< <<"Jane">>, <<"Macro">>, <<"Sharp">> >>))
        \o Line(Row(<< <<"JANE">>, <<"Macro">>, <<>> >>))
        \o Line(DetailedMarker) }

MainDocs == { t \o e : t \in MainTables, e \in EpisodeParts }

\* the command-line flags main branches on
Flags ==
    [start_dev : BOOLEAN, skip_transcript : BOOLEAN, skip_audio : BOOLEAN,
     generate_all : BOOLEAN]

\* the WranglerDevManager of a run: whether main made one, its process
\* reference (None, or the state of the spawned process), the calls of stop
NoManager == [made |-> FALSE, process |-> None, stops |-> 0]

Init ==
    /\ pc = "main"
    /\ text \in MainDocs
    /\ args \in Flags
    /\ research_exists \in BOOLEAN
    /\ dev = NoManager
    /\ table = <<>> /\ details = <<>> /\ profiles = <<>> /\ by_name = <<>>
    /\ episodes = <<>> /\ error = None /\ rc = None /\ api_log = <<>>
    /\ existing_by_name = <<>> /\ guest_ids = <<>> /\ created_episodes = <<>>
    /\ episode = None /\ spec_idx = 0 /\ name_idx = 0
    /\ HelpersIdle

ParsedUnchanged == UNCHANGED <<text, table, details, profiles, by_name, episodes>>

LoopsUnchanged ==
    UNCHANGED <<existing_by_name, guest_ids, created_episodes, episode,
                spec_idx, name_idx>>

\* what no step of main changes: its inputs and the helpers' own results
InputsUnchanged == UNCHANGED <<args, research_exists>> /\ HelpersUnchanged

\* main without --start-dev goes straight to the research file
MainWithoutDev ==
    /\ pc = "main" /\ ~args.start_dev
    /\ pc' = "check_file"
    /\ UNCHANGED <<rc, error, api_log, dev>>
    /\ ParsedUnchanged /\ LoopsUnchanged /\ InputsUnchanged

\* WranglerDevManager.start spawns the process and begins to wait for it
DevSpawn ==
    /\ pc = "main" /\ args.start_dev
    /\ dev' = [made |-> TRUE, process |-> Some("running"), stops |-> 0]
    /\ pc' = "dev_wait"
    /\ UNCHANGED <<rc, error, api_log>>
    /\ ParsedUnchanged /\ LoopsUnchanged /\ InputsUnchanged

\* subprocess.Popen itself raises: main prints the failure and returns 1
DevSpawnFails ==
    /\ pc = "main" /\ args.start_dev
    /\ dev' = [made |-> TRUE, process |-> None, stops |-> 0]
    /\ rc' = Some(1)
    /\ pc' = "done"
    /\ UNCHANGED <<error, api_log>>
    /\ ParsedUnchanged /\ LoopsUnchanged /\ InputsUnchanged

\* the probe answers 200 or 404: start returns
DevReady ==
    /\ pc = "dev_wait"
    /\ pc' = "check_file"
    /\ UNCHANGED <<rc, error, api_log, dev>>
    /\ ParsedUnchanged /\ LoopsUnchanged /\ InputsUnchanged

\* start raises RuntimeError (the process exited early, or the timeout
\* passed): main returns 1 from the except clause, before its try/finally
DevStartFails ==
    /\ pc = "dev_wait"
    /\ \E state \in {"exited", "running"} :
          dev' = [dev EXCEPT !.process = Some(state)]
    /\ rc' = Some(1)
    /\ pc' = "done"
    /\ UNCHANGED <<error, api_log>>
    /\ ParsedUnchanged /\ LoopsUnchanged /\ InputsUnchanged

\* `if not research_path.exists(): return 1`
CheckFile ==
    /\ pc = "check_file"
    /\ IF research_exists
       THEN pc' = "load" /\ rc' = rc
       ELSE pc' = "finally" /\ rc' = Some(1)
    /\ UNCHANGED <<error, api_log, dev>>
    /\ ParsedUnchanged /\ LoopsUnchanged /\ InputsUnchanged

\* a slip: main goes on to the API without the `if not episodes` check
LoadStepUnchecked(r) ==
    /\ error' = r.error
    /\ profiles' = IF r.error = None THEN r.value.guests ELSE profiles
    /\ by_name' = IF r.error = None THEN r.value.guest_map ELSE by_name
    /\ episodes' = IF r.error = None THEN r.value.episodes ELSE episodes
    /\ IF r.error # None THEN pc' = "finally" /\ rc' = rc
       ELSE pc' = "list" /\ rc' = rc

\* what main does with the outcome r of load_research
LoadStep(r) ==
    /\ error' = r.error
    /\ profiles' = IF r.error = None THEN r.value.guests ELSE profiles
    /\ by_name' = IF r.error = None THEN r.value.guest_map ELSE by_name
    /\ episodes' = IF r.error = None THEN r.value.episodes ELSE episodes
    /\ IF r.error # None THEN pc' = "finally" /\ rc' = rc
       ELSE IF r.value.episodes = <<>> THEN pc' = "finally" /\ rc' = Some(1)
       ELSE pc' = "list" /\ rc' = rc

\* guests, guest_map, episodes = load_research(research_path), then
\* `if not episodes: return 1`; an exception leaves the try block
Load ==
    /\ pc = "load"
    /\ LoadStep(load_research(text))
    /\ UNCHANGED <<text, table, details, api_log, dev>>
    /\ LoopsUnchanged /\ InputsUnchanged

\* ApiError(status, message, url), without the url
ApiError(status, message) ==
    [class |-> "ApiError", status |-> status, message |-> message]

\* RenegadeApiClient._request: one request sent to the remote API
Request(entry) == api_log' = Append(api_log, entry)

\* the exception leaves main's try block
Propagate(exc) == error' = Some(exc) /\ pc' = "finally"

\* the guest profiles the remote API may list
RemoteLists ==
    { <<>>,
      << [name |-> <<"JANE">>, id |-> <<"r1">>] >>,
      << [name |-> <<"John">>, id |-> <<"r2">>],
         [name |-> <<" ", "john">>, id |-> <<"r3">>] >> }

\* a slip: names are compared as they are written
NormalizedExact(name) == name

\* str(profile['name']).strip().lower()
Normalized(name) == Lower(Strip(name))

RECURSIVE Deduplicated(_, _)
\* the client-side deduplication of list_guest_profiles: first of each key
Deduplicated(listed, seen) ==
    IF listed = <<>> THEN <<>>
    ELSE LET key == Normalized(Head(listed).name)
         IN  IF key # <<>> /\ key \notin seen
             THEN <<Head(listed)>> \o Deduplicated(Tail(listed), seen \cup {key})
             ELSE Deduplicated(Tail(listed), seen)

RECURSIVE ExistingByName(_, _)
\* {normalized name: profile for profile in existing_profiles}
ExistingByName(acc, listed) ==
    IF listed = <<>> THEN acc
    ELSE ExistingByName(DictSet(acc, Normalized(Head(listed).name), Head(listed)),
                        Tail(listed))

\* sync_guest_profiles begins: client.list_guest_profiles()
ListProfiles ==
    /\ pc = "list"
    /\ Request([op |-> "list_guest_profiles"])
    /\ \/ /\ \E listed \in RemoteLists :
               existing_by_name' = ExistingByName(<<>>, Deduplicated(listed, {}))
          /\ spec_idx' = 1
          /\ pc' = "sync"
          /\ UNCHANGED error
       \/ /\ Propagate(ApiError(None, <<"Unexpected", " ", "response">>))
          /\ UNCHANGED <<existing_by_name, spec_idx>>
    /\ UNCHANGED <<rc, dev, guest_ids, created_episodes, episode, name_idx>>
    /\ ParsedUnchanged /\ InputsUnchanged

\* the id the remote API gives to the record a request creates
NewId(kind) == <<kind>> \o Str(Len(api_log) + 1)

\* the loop of sync_guest_profiles, at a spec whose name exists remotely
SyncReuse ==
    /\ pc = "sync" /\ spec_idx <= Len(profiles)
    /\ Normalized(profiles[spec_idx].name) \in Keys(existing_by_name)
    /\ guest_ids' =
          DictSet(guest_ids, profiles[spec_idx].name,
                  DictGetOr(existing_by_name,
                            Normalized(profiles[spec_idx].name), <<>>).id)
    /\ spec_idx' = spec_idx + 1
    /\ UNCHANGED <<pc, rc, error, api_log, dev, existing_by_name,
                   created_episodes, episode, name_idx>>
    /\ ParsedUnchanged /\ InputsUnchanged

\* the loop of sync_guest_profiles, at a spec to create
SyncCreate ==
    /\ pc = "sync" /\ spec_idx <= Len(profiles)
    /\ Normalized(profiles[spec_idx].name) \notin Keys(existing_by_name)
    /\ Request([op |-> "create_guest_profile", name |-> profiles[spec_idx].name])
    /\ \/ /\ guest_ids' = DictSet(guest_ids, profiles[spec_idx].name, NewId("g"))
          /\ spec_idx' = spec_idx + 1
          /\ UNCHANGED <<pc, error>>
       \/ /\ Propagate(ApiError(None, <<"Failed", " ", "to", " ", "create", " ", "guest">>))
          /\ UNCHANGED <<guest_ids, spec_idx>>
    /\ UNCHANGED <<rc, dev, existing_by_name, created_episodes, episode, name_idx>>
    /\ ParsedUnchanged /\ InputsUnchanged

\* sync_guest_profiles returns guest_ids; create_episodes_with_guests begins
SyncDone ==
    /\ pc = "sync" /\ spec_idx > Len(profiles)
    /\ pc' = "episode"
    /\ spec_idx' = 1
    /\ UNCHANGED <<rc, error, api_log, dev, existing_by_name, guest_ids,
                   created_episodes, episode, name_idx>>
    /\ ParsedUnchanged /\ InputsUnchanged

\* client.create_episode(spec.title, spec.description)
CreateEpisode ==
    /\ pc = "episode" /\ spec_idx <= Len(episodes)
    /\ Request([op |-> "create_episode", title |-> episodes[spec_idx].title,
                description |-> episodes[spec_idx].description])
    /\ \/ /\ episode' = Some(NewId("e"))
          /\ name_idx' = 1
          /\ pc' = "guests"
          /\ UNCHANGED error
       \/ /\ Propagate(ApiError(None, <<"Failed", " ", "to", " ", "create", " ", "episode">>))
          /\ UNCHANGED <<episode, name_idx>>
    /\ UNCHANGED <<rc, dev, existing_by_name, guest_ids, created_episodes, spec_idx>>
    /\ ParsedUnchanged /\ InputsUnchanged

\* guest_id = guest_ids.get(guest_name) for the name the inner loop is at
GuestId == DictGet(guest_ids, episodes[spec_idx].guest_names[name_idx])

\* `if not guest_id: continue`
SkipGuest ==
    /\ pc = "guests" /\ name_idx <= Len(episodes[spec_idx].guest_names)
    /\ ~Truthy(GuestId)
    /\ name_idx' = name_idx + 1
    /\ UNCHANGED <<pc, rc, error, api_log, dev, existing_by_name, guest_ids,
                   created_episodes, episode, spec_idx>>
    /\ ParsedUnchanged /\ InputsUnchanged

\* str.upper() of one atom, for the atoms of the messages of the remote API
UpperAtom(a) ==
    CASE a = "unique" -> "UNIQUE"
      [] OTHER -> a

Upper(s) == [n \in 1..Len(s) |-> UpperAtom(s[n])]

\* the ApiErrors add_guest_to_episode may end with
AddGuestErrors ==
    { ApiError(Some(500), <<"UNIQUE", " ", "constraint", " ", "failed">>),
      ApiError(Some(500), <<"unique", " ", "violation">>),
      ApiError(Some(500), <<"Internal", " ", "error">>),
      ApiError(Some(409), <<"UNIQUE", " ", "constraint", " ", "failed">>),
      ApiError(None, <<"Failed", " ", "to", " ", "add", " ", "guest">>) }

\* a slip: no ApiError of add_guest_to_episode is taken for an existing link
AlreadyLinkedNever(exc) == FALSE

\* `exc.status == 500 and 'UNIQUE' in exc.message.upper()`
AlreadyLinked(exc) ==
    exc.status = Some(500) /\ Contains(Upper(exc.message), <<"UNIQUE">>)

\* client.add_guest_to_episode(episode_id, guest_id): it succeeds, or its
\* ApiError is a 500 naming UNIQUE and is swallowed, or the error is raised
AddGuest ==
    /\ pc = "guests" /\ name_idx <= Len(episodes[spec_idx].guest_names)
    /\ Truthy(GuestId)
    /\ Request([op |-> "add_guest_to_episode", episode |-> episode[1],
                guest |-> GuestId[1]])
    /\ \/ /\ name_idx' = name_idx + 1
          /\ UNCHANGED <<pc, error>>
       \/ \E exc \in AddGuestErrors :
             IF AlreadyLinked(exc)
             THEN name_idx' = name_idx + 1 /\ UNCHANGED <<pc, error>>
             ELSE Propagate(exc) /\ UNCHANGED name_idx
    /\ UNCHANGED <<rc, dev, existing_by_name, guest_ids, created_episodes,
                   episode, spec_idx>>
    /\ ParsedUnchanged /\ InputsUnchanged

\* created.append((spec, episode)) and the next spec
GuestsDone ==
    /\ pc = "guests" /\ name_idx > Len(episodes[spec_idx].guest_names)
    /\ created_episodes' =
          Append(created_episodes, [spec |-> spec_idx, id |-> episode[1]])
    /\ spec_idx' = spec_idx + 1
    /\ pc' = "episode"
    /\ UNCHANGED <<rc, error, api_log, dev, existing_by_name, guest_ids,
                   episode, name_idx>>
    /\ ParsedUnchanged /\ InputsUnchanged

\* created_episodes if args.generate_all else created_episodes[:1]
episodes_to_process ==
    IF args.generate_all THEN created_episodes
    ELSE SubSeq(created_episodes, 1, Min({1, Len(created_episodes)}))

\* create_episodes_with_guests returns; the transcript loop begins
EpisodesDone ==
    /\ pc = "episode" /\ spec_idx > Len(episodes)
    /\ pc' = "transcripts"
    /\ spec_idx' = 1
    /\ UNCHANGED <<rc, error, api_log, dev, existing_by_name, guest_ids,
                   created_episodes, episode, name_idx>>
    /\ ParsedUnchanged /\ InputsUnchanged

\* client.generate_transcript(episode_id); every failure is printed only
GenerateTranscript ==
    /\ pc = "transcripts" /\ ~args.skip_transcript
    /\ spec_idx <= Len(episodes_to_process)
    /\ Request([op |-> "generate_transcript",
                episode |-> episodes_to_process[spec_idx].id])
    /\ spec_idx' = spec_idx + 1
    /\ UNCHANGED <<pc, rc, error, dev, existing_by_name, guest_ids,
                   created_episodes, episode, name_idx>>
    /\ ParsedUnchanged /\ InputsUnchanged

\* the transcript loop is skipped or over; the audio loop begins
TranscriptsDone ==
    /\ pc = "transcripts"
    /\ args.skip_transcript \/ spec_idx > Len(episodes_to_process)
    /\ pc' = "audio"
    /\ spec_idx' = 1
    /\ UNCHANGED <<rc, error, api_log, dev, existing_by_name, guest_ids,
                   created_episodes, episode, name_idx>>
    /\ ParsedUnchanged /\ InputsUnchanged

\* client.trigger_audio_generation(episode_id); every failure is printed only
TriggerAudio ==
    /\ pc = "audio" /\ ~args.skip_audio
    /\ spec_idx <= Len(episodes_to_process)
    /\ Request([op |-> "trigger_audio_generation",
                episode |-> episodes_to_process[spec_idx].id])
    /\ spec_idx' = spec_idx + 1
    /\ UNCHANGED <<pc, rc, error, dev, existing_by_name, guest_ids,
                   created_episodes, episode, name_idx>>
    /\ ParsedUnchanged /\ InputsUnchanged

\* the audio loop is skipped or over: `return 0`
AudioDone ==
    /\ pc = "audio"
    /\ args.skip_audio \/ spec_idx > Len(episodes_to_process)
    /\ rc' = Some(0)
    /\ pc' = "finally"
    /\ UNCHANGED <<error, api_log, dev, existing_by_name, guest_ids,
                   created_episodes, episode, spec_idx, name_idx>>
    /\ ParsedUnchanged /\ InputsUnchanged

\* WranglerDevManager.stop: the process reference is None afterwards
Stopped(manager) == [manager EXCEPT !.process = None, !.stops = manager.stops + 1]

\* the finally clause of main: `if dev_manager is not None: dev_manager.stop()`
Finally ==
    /\ pc = "finally"
    /\ dev' = IF dev.made THEN Stopped(dev) ELSE dev
    /\ pc' = "done"
    /\ UNCHANGED <<rc, error, api_log>>
    /\ ParsedUnchanged /\ LoopsUnchanged /\ InputsUnchanged

Next ==
    \/ MainWithoutDev \/ DevSpawn \/ DevSpawnFails \/ DevReady \/ DevStartFails
    \/ CheckFile \/ Load
    \/ ListProfiles \/ SyncReuse \/ SyncCreate \/ SyncDone
    \/ CreateEpisode \/ SkipGuest \/ AddGuest \/ GuestsDone \/ EpisodesDone
    \/ GenerateTranscript \/ TranscriptsDone \/ TriggerAudio \/ AudioDone
    \/ Finally

Spec == Init /\ [][Next]_vars

----------------------------------------------------------------------------
(* claims about main, checked under Spec *)

\* load_research has returned to main, and its episode list is empty
LoadedNoEpisodes ==
    /\ pc \notin {"main", "dev_wait", "check_file", "load"}
    /\ error = None
    /\ profiles # <<>>
    /\ episodes = <<>>

\* C6: when load_research returns zero episodes, main ends with return code 1
\* and no request has been sent to the remote API at any point before that
\* return, even though guest profiles were parsed
C6_ZeroEpisodes ==
    LoadedNoEpisodes
    => /\ rc = Some(1)
       /\ api_log = <<>>
       /\ pc \in {"finally", "done"}

\* C6 witness: main has returned 1 with parsed profiles and no episode
C6_Witness ==
    /\ pc = "done"
    /\ LoadedNoEpisodes
    /\ Len(profiles) = 2
    /\ rc = Some(1)
    /\ api_log = <<>>

----------------------------------------------------------------------------
(* extract_name_descriptor_pairs applied to a raw pairing string *)

\* the pieces raw pairing strings are made of
RawParts ==
    { <<"Jane">>, <<"John", " ", "Roe">>, <<"Al">>,
      <<" ", "and", " ">>, <<" ", "AND", " ">>, <<"And", " ">>,
      <<" ", "+", " ">>, <<",">>, <<".">>,
      <<" ", "(", "skeptic", ")">>, <<"(", ")">>, <<"!", "!", "!">> }

\* the number of pieces of a raw pairing string
MaxParts == 3

RawStrings == { Concat(parts) : parts \in SeqsUpTo(RawParts, MaxParts) }

InitPairs ==
    /\ pc = "extract_name_descriptor_pairs"
    /\ text \in RawStrings
    /\ table = <<>> /\ details = <<>> /\ profiles = <<>> /\ by_name = <<>>
    /\ episodes = <<>> /\ error = None
    /\ MainIdle

PairsEnd(r) ==
    /\ name_pairs' = r
    /\ pc' = "returned"

PairsCall ==
    /\ pc = "extract_name_descriptor_pairs"
    /\ PairsEnd(extract_name_descriptor_pairs(text))
    /\ UNCHANGED <<text, table, details, profiles, by_name, episodes, error>>
    /\ DriverUnchanged /\ SectionUnchanged /\ ImportUnchanged

NextPairs == PairsCall

SpecPairs == InitPairs /\ [][NextPairs]_vars

\* the end of a separator of the claim at n: '+', comma, or the word 'and'
\* in any case between white space; 0 when none starts at n
ClaimedSeparatorEnd(s, n) ==
    LET m == RunEnd(s, n, WS)
    IN  IF m <= Len(s) /\ s[m] = "+" THEN m
        ELSE IF m <= Len(s) /\ s[m] = "," THEN RunEnd(s, m + 1, WS) - 1
        ELSE IF m > n /\ m <= Len(s) /\ LowerAtom(s[m]) = "and"
                /\ m + 1 <= Len(s) /\ s[m + 1] \in WS
        THEN RunEnd(s, m + 1, WS) - 1
        ELSE 0

RECURSIVE ClaimedSplit(_, _)
\* the raw string split on the separators of the claim
ClaimedSplit(s, pos) ==
    LET starts == {n \in pos..Len(s) : ClaimedSeparatorEnd(s, n) # 0}
    IN  IF starts = {} THEN <<From(s, pos)>>
        ELSE <<SubSeq(s, pos, Min(starts) - 1)>>
             \o ClaimedSplit(s, ClaimedSeparatorEnd(s, Min(starts)) + 1)

RECURSIVE ClaimedTokens(_)
\* the tokens that survive: cleaned as a name of the primary strategy is,
\* at least 3 characters long, each with an absent descriptor
ClaimedTokens(tokens) ==
    IF tokens = <<>> THEN <<>>
    ELSE (IF CharLen(CleanName(Head(tokens))) >= 3
          THEN <<[name |-> CleanName(Head(tokens)), descriptor |-> None]>>
          ELSE <<>>)
         \o ClaimedTokens(Tail(tokens))

\* the pairs of the parenthetical strategy
ParentheticalPairs == PrimaryResults(FindAllPairs(text, 1))

\* no word and no parenthesis in the raw string
PunctuationOnly == \A n \in 1..Len(text) : text[n] \in WS \cup {"+", ",", ".", "!"}

\* C11: extract_name_descriptor_pairs uses its fallback exactly when the
\* parenthetical strategy yields nothing; the fallback splits on '+', comma
\* or the word ' and ' in any case, cleans each token as the primary strategy
\* does, drops tokens shorter than 3 characters and emits the others in order
\* with an absent descriptor; an empty or punctuation-only input yields
\* nothing
C11_Fallback ==
    pc = "returned"
    => /\ name_pairs = (IF ParentheticalPairs # <<>> THEN ParentheticalPairs
                     ELSE ClaimedTokens(ClaimedSplit(text, 1)))
       /\ PunctuationOnly => name_pairs = <<>>

----------------------------------------------------------------------------
(* the rows of the guest table, checked under SpecTable *)

\* the trimmed cells of a pipe-delimited line, without the empty fields the
\* enclosing pipes leave at either end
ClaimedCells(stripped) ==
    LET parts == SplitOn(stripped, "|", 1)
        first == IF Strip(parts[1]) = <<>> THEN 2 ELSE 1
        last  == IF Strip(parts[Len(parts)]) = <<>> THEN Len(parts) - 1 ELSE Len(parts)
    IN  [n \in 1..(last - first + 1) |-> Strip(parts[first + n - 1])]

\* a separator line: every cell is made of dashes only
SeparatorLine(cells) ==
    cells # <<>> /\ \A n \in 1..Len(cells) : cells[n] = <<"---">>

\* the header row again
HeaderAgain(cells) == cells = << <<"Guest Name">>, <<"Domain">>, <<"Relevance Summary">> >>

\* the entry the claim gives to one line of the table body
ClaimedLine(guests, line) ==
    LET cells == ClaimedCells(Strip(line))
    IN  IF Strip(line) = <<>> \/ ~Contains(line, <<"|">>) THEN guests
        ELSE IF SeparatorLine(cells) \/ HeaderAgain(cells) \/ Len(cells) < 2
        THEN guests
        ELSE DictSet(guests, cells[1],
                     [domain  |-> cells[2],
                      summary |-> IF Len(cells) > 2 THEN cells[3] ELSE <<>>])

RECURSIVE ClaimedRows(_, _)
ClaimedRows(guests, lines) ==
    IF lines = <<>> THEN guests
    ELSE ClaimedRows(ClaimedLine(guests, Head(lines)), Tail(lines))

\* C12: in parse_guest_table no separator line (cells of dashes only, with or
\* without spaces around them) and no repeated header row becomes a guest
\* entry, a row with fewer than 2 usable columns produces no entry, and every
\* other non-blank pipe-delimited line between header and marker produces an
\* entry keyed by its trimmed first cell, with its trimmed second and third
\* cells as domain and summary
C12_Rows ==
    pc = "returned" => table = ClaimedRows(<<>>, BodyLines)

----------------------------------------------------------------------------
(* parse_guest_details applied to a document *)

\* the blocks a detail zone may hold
DetailKinds ==
    { Line(<<"1", ".", " ", "Jane">>)
        \o Line(Bullet("Domain", <<"Tech">>))
        \o Line(Bullet("Rationale", <<"Deep">>)),
      Line(<<"2", ".", " ">>) \o Line(Bullet("Domain", <<"Lost">>)),
      Line(<<"Preface">>),
      Line(<<"1", "2", ".", " ", "Bo", " ">>)
        \o Line(Bullet("Chemistry Tag", <<"Contrarian">>))
        \o Line(<<" ", "more">>),
      Line(<<"3", ".", " ", "Jane">>) \o Line(Bullet("Domain", <<"Other">>)),
      Line(<<"7", ".">>),
      Line(<<>>) }

\* the number of blocks of a generated detail zone
MaxDetailBlocks == 2

\* a numbered block the parser must not read: before the marker, or after
\* 'IV. Strategic Analysis'
Outside(name, value) ==
    Line(<<"9", ".", " ", name>>) \o Line(Bullet("Domain", <<value>>))

DetailDocs ==
    { pre \o mark \o Concat(blocks) \o post :
        pre \in { <<>>, Outside("Early", "Old") },
        mark \in { <<>>, Line(DetailedMarker) },
        blocks \in SeqsUpTo(DetailKinds, MaxDetailBlocks),
        post \in { <<>>, Line(StrategicMarker) \o Outside("Zed", "Late") } }

InitDetails ==
    /\ pc = "parse_guest_details"
    /\ text \in DetailDocs
    /\ table = <<>> /\ details = <<>> /\ profiles = <<>> /\ by_name = <<>>
    /\ episodes = <<>> /\ error = None
    /\ MainIdle

\* the call returns the detail mapping
DetailsEnd(r) ==
    /\ details' = r
    /\ pc' = "returned"

DetailsCall ==
    /\ pc = "parse_guest_details"
    /\ DetailsEnd(parse_guest_details(text))
    /\ UNCHANGED <<text, table, profiles, by_name, episodes, error>>
    /\ MainUnchanged

NextDetails == DetailsCall

SpecDetails == InitDetails /\ [][NextDetails]_vars

----------------------------------------------------------------------------
(* C13: the detail mapping, line by line *)

\* the text between the first 'Detailed Guest Profiles' and a later
\* 'IV. Strategic Analysis', trimmed
DetailZone ==
    IF ~Contains(text, DetailedMarker) THEN <<>>
    ELSE LET after == From(text, Find(text, DetailedMarker, 1) + Len(DetailedMarker))
             cut == Find(after, StrategicMarker, 1)
         IN  Strip(IF cut = 0 THEN after ELSE SubSeq(after, 1, cut - 1))

ZoneLines == SplitLines(DetailZone)

\* line n of the zone opens a block: the first line, or a line that begins
\* '<integer>.' followed by whitespace or by the end of the line
OpensBlock(n) ==
    \/ n = 1
    \/ NumberedAt(ZoneLines[n] \o (IF n < Len(ZoneLines) THEN <<"\n">> ELSE <<>>), 1)

\* the last line of the block that line n opens
BlockLast(n) ==
    LET later == {m \in (n + 1)..Len(ZoneLines) : OpensBlock(m)}
    IN  IF later = {} THEN Len(ZoneLines)
        ELSE (CHOOSE m \in later : \A o \in later : m <= o) - 1

\* line n reads '<integer>. <name>'
MatchesHeader(n) == NumberedAt(RStrip(ZoneLines[n]), 1)

HeaderRemainder(n) ==
    LET line == ZoneLines[n]
    IN  Strip(From(line, RunEnd(line, 1, Digit) + 1))

\* the entries of the matching blocks, in the order of the zone
RECURSIVE ClaimedDetails(_, _)
ClaimedDetails(dets, n) ==
    IF n > Len(ZoneLines) THEN dets
    ELSE ClaimedDetails(
             IF OpensBlock(n) /\ MatchesHeader(n)
             THEN DictSet(dets, HeaderRemainder(n),
                      parse_structured_section(
                          KeptLines(SubSeq(ZoneLines, n + 1, BlockLast(n)))))
             ELSE dets,
             n + 1)

\* the words of the blocks outside the zone
OutsideWords == {"Early", "Old", "Zed", "Late"}

Mentions(s, words) == \E n \in 1..Len(s) : s[n] \in words

\* C13: parse_guest_details returns without raising; without the marker
\* 'Detailed Guest Profiles' the mapping is empty; otherwise the mapping holds
\* exactly one entry per block whose first line reads '<integer>. <name>',
\* keyed by the trimmed remainder of that line, the other blocks leaving no
\* trace; and no name or field comes from text before the marker or from
\* 'IV. Strategic Analysis' onwards.
C13_Details ==
    pc = "returned" =>
        /\ error = None
        /\ ~Contains(text, DetailedMarker) => details = <<>>
        /\ details = ClaimedDetails(<<>>, 1)
        /\ \A n \in 1..Len(details) :
               /\ ~Mentions(details[n].k, OutsideWords)
               /\ \A f \in 1..Len(details[n].v) :
                      ~Mentions(details[n].v[f].v, OutsideWords)

\* a zone with a skipped block beside a matching one, cut at the later marker
C13_Witness ==
    /\ pc = "returned"
    /\ Contains(text, StrategicMarker)
    /\ Len(details) = 1
    /\ \E n \in 1..Len(ZoneLines) : OpensBlock(n) /\ ~MatchesHeader(n)

----------------------------------------------------------------------------
(* parse_structured_section scanned line by line *)

\* the lines a section may hold
SectionLineKinds ==
    { <<"*", " ", "Domain", ":", " ", "Tech">>,
      <<" ", "*", " ", "Domain", ":", " ", "Other", " ">>,
      <<"*", " ", "Bio", ":", " ", "Born", ":", " ", "Here">>,
      <<"*", " ", ":", " ", "Odd">>,
      <<"*", " ", "Note">>,
      <<"*", " ", "Key", ":", "Value">>,
      <<" ", "more", " ">>,
      <<"*", "tail">>,
      <<" ">>,
      <<>> }

\* the number of lines of a generated section
MaxLines == 3

InitSection ==
    /\ pc = "parse_structured_section"
    /\ raw_lines \in SeqsUpTo(SectionLineKinds, MaxLines)
    /\ scan = [fields |-> <<>>, current_key |-> None]
    /\ text = <<>> /\ table = <<>> /\ details = <<>> /\ profiles = <<>>
    /\ by_name = <<>> /\ episodes = <<>> /\ error = None
    /\ DriverIdle /\ name_pairs = <<>> /\ ImportIdle

\* for raw_line in lines: one iteration
SectionStep(st) ==
    /\ scan' = st
    /\ raw_lines' = Tail(raw_lines)
    /\ pc' = pc

SectionLine ==
    /\ pc = "parse_structured_section"
    /\ raw_lines # <<>>
    /\ SectionStep(StructuredLine(scan, Head(raw_lines)))
    /\ UNCHANGED <<text, table, details, profiles, by_name, episodes, error>>
    /\ DriverUnchanged /\ PairsUnchanged /\ ImportUnchanged

\* return fields
SectionReturn ==
    /\ pc = "parse_structured_section"
    /\ raw_lines = <<>>
    /\ pc' = "returned"
    /\ UNCHANGED <<text, table, details, profiles, by_name, episodes, error>>
    /\ MainUnchanged

NextSection == SectionLine \/ SectionReturn

SpecSection == InitSection /\ [][NextSection]_vars

----------------------------------------------------------------------------
(* C15: the state machine of parse_structured_section *)

IsBullet(t) == Len(t) >= 2 /\ t[1] = "*" /\ t[2] = " "

\* the text of a bullet line after the '* '
BulletContent(t) == Strip(SubSeq(t, 3, Len(t)))

HasColon(c) == \E n \in 1..Len(c) : c[n] = ":"

HasColonSpace(c) == \E n \in 1..(Len(c) - 1) : c[n] = ":" /\ c[n + 1] = " "

FirstColon(c) == CHOOSE n \in 1..Len(c) : c[n] = ":" /\ \A m \in 1..(n - 1) : c[m] # ":"

\* fields' is fields with key set to value: a new key goes last, a known key
\* keeps its place, every other entry is untouched
SetTo(old, new, key, value) ==
    /\ DictGet(new, key) = Some(value)
    /\ Keys(new) = Keys(old) \cup {key}
    /\ \A n \in 1..Len(old) :
           new[n].k = old[n].k /\ (old[n].k # key => new[n].v = old[n].v)

\* what one line does, as the claim states it; a field is open when
\* current_key is not None, whatever the key
ClaimedSectionLine(t) ==
    IF t = <<>> THEN scan' = scan
    ELSE IF IsBullet(t) /\ HasColonSpace(BulletContent(t))
    THEN LET c == BulletContent(t)
             key == Strip(SubSeq(c, 1, FirstColon(c) - 1))
         IN  /\ scan'.current_key = Some(key)
             /\ SetTo(scan.fields, scan'.fields, key,
                      Strip(SubSeq(c, FirstColon(c) + 1, Len(c))))
    ELSE IF IsBullet(t)
    THEN /\ ~HasColon(BulletContent(t)) =>
                scan' = [scan EXCEPT !.current_key = None]
    ELSE IF scan.current_key # None
    THEN LET key == scan.current_key[1]
         IN  /\ scan'.current_key = scan.current_key
             /\ SetTo(scan.fields, scan'.fields, key,
                      Strip(DictGet(scan.fields, key)[1] \o <<" ">> \o t))
    ELSE scan' = scan

\* C15: each line scanned by parse_structured_section moves the state as
\* follows: a '* ' line with ': ' opens the trimmed key before the first ':'
\* and sets it to the trimmed remainder; a '* ' line without a colon leaves
\* no field open; any other non-blank line appends its trimmed text after a
\* space to the open field, the field with the empty key included, and is
\* ignored when no field is open; a blank line changes nothing.
C15_StateMachine ==
    [][pc = "parse_structured_section" /\ raw_lines # <<>>
           => ClaimedSectionLine(Strip(Head(raw_lines)))]_vars

----------------------------------------------------------------------------
(* C16: create_episodes_with_guests, read from the requests it sent *)

\* the requests of one operation, in the order they were sent
RequestsOf(op) == SelectSeq(api_log, LAMBDA e : e.op = op)

\* the add_guest_to_episode requests that name one episode
LinksOf(id) ==
    SelectSeq(api_log, LAMBDA e : e.op = "add_guest_to_episode" /\ e.episode = id)

\* the ids of the guest names of a spec that guest_ids resolves, in order
RECURSIVE ResolvedIds(_)
ResolvedIds(names) ==
    IF names = <<>> THEN <<>>
    ELSE (IF Head(names) \in Keys(guest_ids)
          THEN <<DictGet(guest_ids, Head(names))[1]>> ELSE <<>>)
         \o ResolvedIds(Tail(names))

\* an ApiError the loop must swallow: status 500 and a message naming UNIQUE
\* in any case
NamesUnique(exc) ==
    /\ exc.class = "ApiError"
    /\ exc.status = <<500>>
    /\ \E n \in 1..Len(exc.message) : exc.message[n] \in {"UNIQUE", "unique"}

\* create_episodes_with_guests has begun
InEpisodeLoop == pc \in {"episode", "guests"}

C16_WitnessRaised ==
    /\ pc = "done"
    /\ error = Some(ApiError(Some(500), <<"Internal", " ", "error">>))

----------------------------------------------------------------------------
(* C17: sync_guest_profiles, read from the requests it sent *)

\* a name after strip and lower-casing
StripLower(name) == Lower(Strip(name))

\* the profiles list_guest_profiles returned that have the name of a spec
SameNamed(name) ==
    {n \in 1..Len(existing_by_name) :
        StripLower(existing_by_name[n].v.name) = StripLower(name)}

\* the names sync_guest_profiles asked the remote API to create
CreatedNames ==
    {RequestsOf("create_guest_profile")[n].name :
        n \in 1..Len(RequestsOf("create_guest_profile"))}

\* sync_guest_profiles has returned guest_ids to main
SyncReturned == pc \in {"episode", "guests", "transcripts", "audio"}

\* C17: once sync_guest_profiles has returned, guest_ids holds an id for the
\* name of every profile spec; a create_guest_profile request is sent for a
\* spec only if no listed profile has the same name after strip and
\* lower-casing, and a spec with such a listed profile gets that profile's
\* id and no create request.
C17_Sync ==
    /\ SyncReturned =>
           \A n \in 1..Len(profiles) : Truthy(DictGet(guest_ids, profiles[n].name))
    /\ \A name \in CreatedNames : SameNamed(name) = {}
    /\ \A n \in 1..Len(profiles) :
           (profiles[n].name \in Keys(guest_ids) /\ SameNamed(profiles[n].name) # {})
           => /\ profiles[n].name \notin CreatedNames
              /\ \E m \in SameNamed(profiles[n].name) :
                     DictGet(guest_ids, profiles[n].name)
                       = Some(existing_by_name[m].v.id)

\* one spec reused a listed profile whose name differs in case, another was
\* created
C17_Witness ==
    /\ SyncReturned
    /\ Len(profiles) = 2
    /\ SameNamed(profiles[1].name) # {}
    /\ profiles[1].name \notin {existing_by_name[n].v.name : n \in 1..Len(existing_by_name)}
    /\ CreatedNames = {profiles[2].name}

----------------------------------------------------------------------------
(* import_episodes of import_json_data.py *)

\* the episodes of episodes.json: with an id, without one, with an empty id,
\* without a title
JsonEpisodes ==
    { [id |-> Some(<<"e1">>), title |-> Some(<<"Money">>)],
      [id |-> None, title |-> Some(<<"Power">>)],
      [id |-> Some(<<>>), title |-> Some(<<"Blank">>)],
      [id |-> Some(<<"e2">>), title |-> None] }

\* the number of episodes of a generated episodes.json
MaxJsonEpisodes == 2

\* how a call of ApiClient._request ends: a body with a true 'success', any
\* other body, or the Exception raised for an HTTPError or a URLError
RequestResults == {"success", "failure", "HTTPError", "URLError"}

InitImport ==
    /\ pc = "import_episodes"
    /\ json_file \in {None} \cup {Some(f) : f \in SeqsUpTo(JsonEpisodes, MaxJsonEpisodes)}
    /\ dry_run \in BOOLEAN
    /\ counts = [created |-> 0, updated |-> 0, skipped |-> 0]
    /\ episode_idx = 1
    /\ calls = <<>>
    /\ text = <<>> /\ table = <<>> /\ details = <<>> /\ profiles = <<>>
    /\ by_name = <<>> /\ episodes = <<>> /\ error = None
    /\ DriverIdle /\ name_pairs = <<>> /\ SectionIdle

ImportFrame ==
    /\ UNCHANGED <<json_file, dry_run, error>>
    /\ ParsedUnchanged /\ DriverUnchanged /\ PairsUnchanged /\ SectionUnchanged

\* created += 1, updated += 1 or skipped += 1, and the next episode
Counted(field) ==
    /\ counts' = [counts EXCEPT ![field] = @ + 1]
    /\ episode_idx' = episode_idx + 1
    /\ pc' = "import_episodes"

\* a call of the client and how it ended
Called(op, id, result) ==
    calls' = Append(calls, [op |-> op, id |-> id, result |-> result])

\* `if not os.path.exists(episodes_file)`: all counts zero
ImportNoFile ==
    /\ pc = "import_episodes"
    /\ json_file = None
    /\ pc' = "returned"
    /\ UNCHANGED <<counts, episode_idx, calls>>
    /\ ImportFrame

\* `if dry_run`: counted as created without any call
ImportDryRun ==
    /\ pc = "import_episodes"
    /\ json_file # None /\ episode_idx <= Len(json_file[1])
    /\ dry_run
    /\ Counted("created")
    /\ UNCHANGED calls
    /\ ImportFrame

\* result = client.create_episode(episode) inside the try
ImportCreate ==
    /\ pc = "import_episodes"
    /\ json_file # None /\ episode_idx <= Len(json_file[1])
    /\ ~dry_run
    /\ LET ep == json_file[1][episode_idx]
       IN  IF ep.title = None
           THEN /\ Called("create_episode", ep.id, "KeyError")
                /\ Counted("skipped")
           ELSE \E result \in RequestResults :
                   /\ Called("create_episode", ep.id, result)
                   /\ IF result = "success" THEN Counted("created")
                      ELSE IF result = "failure" /\ Truthy(ep.id)
                      THEN pc' = "update" /\ UNCHANGED <<counts, episode_idx>>
                      ELSE Counted("skipped")
    /\ ImportFrame

\* result = client.update_episode(episode_id, episode)
ImportUpdate ==
    /\ pc = "update"
    /\ \E result \in RequestResults :
          /\ Called("update_episode", json_file[1][episode_idx].id, result)
          /\ Counted(IF result = "success" THEN "updated" ELSE "skipped")
    /\ ImportFrame

\* return {'created': created, 'updated': updated, 'skipped': skipped}
ImportReturn ==
    /\ pc = "import_episodes"
    /\ json_file # None /\ episode_idx > Len(json_file[1])
    /\ pc' = "returned"
    /\ UNCHANGED <<counts, episode_idx, calls>>
    /\ ImportFrame

NextImport ==
    \/ ImportNoFile
    \/ ImportDryRun
    \/ ImportCreate
    \/ ImportUpdate
    \/ ImportReturn

SpecImport == InitImport /\ [][NextImport]_vars

----------------------------------------------------------------------------
(* C18: create first, update on every failed creation *)

\* call n created nothing for an episode that has an id
FailedCreate(n) ==
    /\ calls[n].op = "create_episode"
    /\ calls[n].result # "success"
    /\ Truthy(calls[n].id)

\* the update of the same id comes next, before the episode is counted
UpdateFollows(n) ==
    IF n = Len(calls) THEN pc = "update"
    ELSE calls[n + 1].op = "update_episode" /\ calls[n + 1].id = calls[n].id

\* C18: in import_episodes without dry-run, each update_episode call follows
\* the create_episode call of the same episode; every create_episode call
\* that does not succeed for an episode with an id, whether by its body or
\* by an HTTP or connection error, is followed by an update_episode call for
\* that id before the episode is counted as skipped; and on return
\* created + updated + skipped is the number of episodes of the file.
C18_UpdateOnFailure ==
    /\ \A n \in 1..Len(calls) :
           /\ calls[n].op = "update_episode" =>
                  n > 1 /\ calls[n - 1].op = "create_episode"
                        /\ calls[n - 1].id = calls[n].id
           /\ FailedCreate(n) => UpdateFollows(n)
    /\ (pc = "returned" /\ json_file # None) =>
           counts.created + counts.updated + counts.skipped = Len(json_file[1])

----------------------------------------------------------------------------
(* C19: one marker occurrence for the table and for the details *)

\* the occurrence of 'Detailed Guest Profiles' that ends the table body
TableEndMarker == Find(text, DetailedMarker, HeaderEnd)

\* the occurrence after which parse_guest_details reads detail blocks
DetailStartMarker == Find(text, DetailedMarker, 1)

\* the cell separator and the words of the header row: no cell holds them
TableMarks == {"|", "Guest Name", "Relevance Summary"}

OptionalMentions(opt, words) == opt # None /\ Mentions(opt[1], words)

\* a field of the profile that a detail block can fill holds a line of the
\* guest table
HoldsTableLine(p) ==
    \/ OptionalMentions(p.expertise, TableMarks)
    \/ OptionalMentions(p.tone, TableMarks)
    \/ OptionalMentions(p.potential_topic, TableMarks)
    \/ OptionalMentions(p.summary, TableMarks)
    \/ Mentions(p.persona_description, TableMarks)

\* C19: when load_research returns, the 'Detailed Guest Profiles' occurrence
\* that starts the detail zone is the one that ended the table body, also
\* when the marker occurs before the table header; so no line of the guest
\* table, header included, is read as part of a detail block.
C19_SameMarker ==
    pc = "returned" =>
        /\ DetailStartMarker = TableEndMarker
        /\ \A n \in 1..Len(profiles) : ~HoldsTableLine(profiles[n])

----------------------------------------------------------------------------
(* C20: one creation per normalized name *)

\* C20: within one run of sync_guest_profiles no two create_guest_profile
\* requests carry names that are equal after strip and lower-casing: of two
\* specs whose names differ only in case or surrounding whitespace, the
\* second reuses the record created for the first.
C20_OneCreatePerName ==
    \A n, m \in 1..Len(RequestsOf("create_guest_profile")) :
        StripLower(RequestsOf("create_guest_profile")[n].name)
          = StripLower(RequestsOf("create_guest_profile")[m].name)
        => n = m

----------------------------------------------------------------------------
(* C21: the wrangler process is stopped before main returns *)

\* start has spawned the process: the manager holds it, or stop has let go
\* of it
Spawned == dev.made /\ (dev.process # None \/ dev.stops > 0)

\* C21: with --start-dev, whenever main has returned after start spawned the
\* wrangler process (ready, readiness timeout, early exit, missing research
\* file, zero episodes, API error), stop has been called and the manager's
\* process reference is None.
C21_StoppedOnReturn ==
    (pc = "done" /\ Spawned) => (dev.stops >= 1 /\ dev.process = None)

----------------------------------------------------------------------------
(* C22: parse_episode_specs never raises *)

\* the header of a block has a ':' to take the theme from
HasTheme(lines) == \E n \in 1..Len(lines[1]) : lines[1][n] = ":"

\* the Pairing blocks with a theme: each yields one record
ThemedPairings ==
    SelectSeq(DocBlocks, LAMBDA lines : IsPairing(lines[1]) /\ HasTheme(lines))

\* C22: parse_episode_specs returns for every document text: a numbered
\* 'Thematic Pairing' or 'Thematic Arc' block whose header has no ':' does
\* not abort the parse, and the records of the other blocks are still
\* returned.
C22_NeverRaises ==
    EpisodesCallEnded
    => /\ pc = "returned"
       /\ error = None
       /\ Len(episodes) >= Len(ThemedPairings)

====
